---- MODULE Spec2Model ----
(***************************************************************************)
(* A model of the timecapsule key server (github.com/newgrp/timecapsule):  *)
(* the interval secret store (keys/secrets.go), the key manager, the       *)
(* secure clock with its NTS poller (clock/) and the two HTTP handlers      *)
(* (server/).                                                               *)
(*                                                                          *)
(* Times are whole seconds since the Unix epoch.  A time.Time value is the  *)
(* record [unix, loc]: the instant and the zone offset it is presented in.  *)
(***************************************************************************)
EXTENDS Integers, Sequences, FiniteSets, TLC

(***************************************************************************)
(* Program constants.                                                       *)
(***************************************************************************)
secretSize == 32
secretInterval == 3600
pollPeriod == 3600
retryPeriod == 300
maxConsecutiveFailures == 5
ntsStaleThreshold == 21600

(***************************************************************************)
(* Bounds of the model.                                                     *)
(***************************************************************************)
\* calls (GetKeyForTime or HTTP requests) started in one run
MaxCalls == 2
\* environment failures (RNG, file open, file write, file read) in one run
MaxFaults == 1
\* steps of the clocks in one run
MaxTicks == 1

\* sleeps of PollLoop in one run of the poller specification
MaxPolls == 8

(***************************************************************************)
(* The configured time range and the instants requests are made for.        *)
(***************************************************************************)
MinTime == [unix |-> 2 * secretInterval, loc |-> 0]
MaxTime == [unix |-> 4 * secretInterval - 1, loc |-> 0]

\* zone offsets (seconds east of UTC) a time.Time may carry
Zones == {0, -25200}

\* the instants the model draws requests from: both range bounds, their
\* outside neighbours, and instants of two intervals inside the range
Instants ==
  { MinTime.unix - 1, MinTime.unix, 3 * secretInterval, MaxTime.unix, MaxTime.unix + 1 }

\* the time.Time values calls are made with: every instant in UTC, and the
\* first instant of the range in a second zone as well
TimeValues ==
  [unix : Instants, loc : {0}] \cup [unix : {MinTime.unix}, loc : Zones]

\* the workers of the store specification and the request handlers of the
\* server specification
Workers == {"w1", "w2"}
Handlers == {"h1"}
Procs == Workers \cup Handlers

(***************************************************************************)
(* time.Time operations.                                                    *)
(***************************************************************************)
\* t.Compare(u): -1, 0 or +1 by instant, whatever the locations
Compare(t, u) ==
  IF t.unix < u.unix THEN -1 ELSE IF t.unix > u.unix THEN 1 ELSE 0

\* t.Truncate(d) rounding to the second
TruncateToSecond(t, d) == t

\* t.Truncate(d): round the absolute time down to a multiple of d
Truncate(t, d) == [unix |-> t.unix - (t.unix % d), loc |-> t.loc]

\* t.UTC() leaving t in its location
UTCInLocation(t) == t

\* t.UTC(): the same instant presented in UTC
UTC(t) == [unix |-> t.unix, loc |-> 0]

\* t.Format(fileNameLayout): the fields of the layout "2006-01-02@15.04.05"
\* of the wall clock of t in its location (the date as a day number)
Format(t) ==
  LET wall == t.unix + t.loc
  IN  [ day |-> wall \div 86400,
        hh  |-> (wall % 86400) \div 3600,
        mm  |-> (wall % 3600) \div 60,
        ss  |-> wall % 60 ]

\* the file GetSecretForTime uses for t
SecretFile(t) == Format(UTC(Truncate(t, secretInterval)))

InRange(t) == ~(Compare(t, MinTime) < 0 \/ Compare(t, MaxTime) > 0)

Paths == { SecretFile(t) : t \in { u \in TimeValues : InRange(u) } }

(***************************************************************************)
(* Bytes.  A 32-byte buffer is identified by the RNG read that filled it:   *)
(* rand is the number of the read (0: a read of an earlier run of the       *)
(* server), full says whether io.ReadFull filled all 32 bytes.              *)
(***************************************************************************)
NoBlob == [rand |-> 0, full |-> FALSE]
OldBlob == [rand |-> 0, full |-> TRUE]

\* the contents of a file: its length and, when it is not empty, its bytes
NoBytes == [len |-> 0, blob |-> NoBlob]
BytesOf(b) == [len |-> secretSize, blob |-> b]

\* a directory entry
Absent == [exists |-> FALSE, data |-> NoBytes]
FileOf(d) == [exists |-> TRUE, data |-> d]

(***************************************************************************)
(* deriveKeyForTime: HKDF-SHA-256 over ikm with info = t.Unix(); the key    *)
(* is determined by exactly these two inputs.                               *)
(***************************************************************************)
NoKey == [ikm |-> NoBytes, info |-> -1]
deriveKeyForTime(ikm, t) == [ikm |-> ikm, info |-> t.unix]

(***************************************************************************)
(* generateKeyStable(stream).  A stream is the sequence of its whole        *)
(* 32-byte blocks, each a valid P-256 scalar or not, and whether bytes of   *)
(* a further, incomplete block follow; a key is identified by the number    *)
(* of the block it was built from.                                          *)
(***************************************************************************)
maxKeyAttempts == 10

\* the longest stream of the model, in blocks
MaxBlocks == 11

RECURSIVE BlockSeqs(_)
BlockSeqs(n) ==
  IF n = 0 THEN { <<>> }
  ELSE BlockSeqs(n - 1)
       \cup { Append(s, b) : s \in { r \in BlockSeqs(n - 1) : Len(r) = n - 1 },
                             b \in {"valid", "invalid"} }

Streams == [blocks : BlockSeqs(MaxBlocks), partial : BOOLEAN]

\* the loop of generateKeyStable allowing one attempt more
RECURSIVE generateKeyStableOneMore(_, _)
generateKeyStableOneMore(stream, i) ==
  IF i > maxKeyAttempts THEN [ok |-> FALSE, err |-> "attempts", key |-> 0, reads |-> i]
  ELSE IF i + 1 > Len(stream.blocks)
       THEN [ok |-> FALSE, err |-> "entropy", key |-> 0, reads |-> i]
  ELSE IF stream.blocks[i + 1] = "valid"
       THEN [ok |-> TRUE, err |-> "none", key |-> i + 1, reads |-> i + 1]
       ELSE generateKeyStableOneMore(stream, i + 1)

\* the loop of generateKeyStable from its iteration i on (i blocks read so
\* far): io.ReadFull of the next block, ecdh.P256().NewPrivateKey(buf)
RECURSIVE generateKeyStableFrom(_, _)
generateKeyStableFrom(stream, i) ==
  IF i >= maxKeyAttempts THEN [ok |-> FALSE, err |-> "attempts", key |-> 0, reads |-> i]
  ELSE IF i + 1 > Len(stream.blocks)
       THEN [ok |-> FALSE, err |-> "entropy", key |-> 0, reads |-> i]
  ELSE IF stream.blocks[i + 1] = "valid"
       THEN [ok |-> TRUE, err |-> "none", key |-> i + 1, reads |-> i + 1]
       ELSE generateKeyStableFrom(stream, i + 1)

generateKeyStable(stream) == generateKeyStableFrom(stream, 0)

NoStream == [blocks |-> <<>>, partial |-> FALSE]
NoResult == [ok |-> FALSE, err |-> "none", key |-> 0, reads |-> 0]
NoKeygen == [stream |-> NoStream, done |-> FALSE, result |-> NoResult]

VARIABLES
  files,       \* the secrets directory: path -> directory entry
  privileged,  \* the process may open a mode-0400 file for writing (root)
  writers,     \* secretManager.writers: path -> channel number, 0: no entry
  writersMu,   \* secretManager.writersMu: the proc holding it, or "free"
  chans,       \* the channels made by createSecretFile, each with the
               \* createSecretFileInternal goroutine sending on it
  proc,        \* each worker's or handler's call in progress
  calls,       \* calls started so far
  faults,      \* environment failures so far
  released,    \* history: instant -> the keys successful calls returned
  outputs,     \* history: instant -> the bodies of the handlers' 200 answers
  dir,         \* the name and uuid files of the secrets directory
  sm,          \* the latest newSecretManager call: its options and result
  gen,         \* UUIDs generated so far
  trueTime,    \* the true wall-clock time
  mono,        \* the host's monotonic clock
  ticks,       \* clock steps so far
  cell,        \* the muCell[clockReading] shared by poller and SecureClock
  keygen,      \* a call of generateKeyStable: its stream and its result
  cellMu,      \* muCell.mu: who holds it, or "free"
  puts,        \* history: the readings stored in the cell so far
  resps,       \* history: the times the NTS responses so far carried
  attempt,     \* history: the latest createSession call of the behaviour
  steady,      \* history: the servers that responded at every attempt
               \* since the cell was last written
  poller       \* the ntsPoller and the position of its PollLoop; made counts
               \* the sessions createSession has established (history)

histVars == <<puts, resps, attempt, steady>>

clockVars == <<trueTime, mono, ticks, cell, cellMu, histVars, poller>>

configVars == <<dir, sm, gen>>

vars == <<files, privileged, writers, writersMu, chans, proc, calls, faults, released,
          outputs, configVars, keygen, clockVars>>

storeVars == <<files, writers, writersMu, chans>>

(***************************************************************************)
(* HTTP request parameters.  A pki_id or time parameter is a string; the    *)
(* model draws it from the strings below and parses it as the code does.    *)
(***************************************************************************)
\* the PKI ID of the server (secretManager.pkiID) and a foreign one
ServerPKIID == "aa625eb2"
OtherPKIID == "0b1f4c9e"

\* pki_id strings: two spellings of the server's ID, a foreign ID, and two
\* strings that are no UUID
UUIDStrings ==
  { "aa625eb2-d75d-4a64-8f5c-22cd4a06db22",
    "urn:uuid:AA625EB2-D75D-4A64-8F5C-22CD4A06DB22",
    "0b1f4c9e-3c1d-4e0a-9b57-6d2f8a4e7c11",
    "not-a-uuid",
    "" }

\* uuid.NewString(): the strings successive calls return
GeneratedUUIDs ==
  << "5d0e3a77-0c52-4b8e-a1f0-93c1b2a7d001", "5d0e3a77-0c52-4b8e-a1f0-93c1b2a7d002",
     "5d0e3a77-0c52-4b8e-a1f0-93c1b2a7d003", "5d0e3a77-0c52-4b8e-a1f0-93c1b2a7d004" >>

\* uuid.Parse(s): the canonical form, and the urn:uuid: form in either case,
\* parse to the ID; anything else here is an error
ParseUUID(s) ==
  CASE s = "aa625eb2-d75d-4a64-8f5c-22cd4a06db22" -> [ok |-> TRUE, id |-> ServerPKIID]
    [] s \in {GeneratedUUIDs[i] : i \in 1..Len(GeneratedUUIDs)} -> [ok |-> TRUE, id |-> s]
    [] s = "urn:uuid:AA625EB2-D75D-4A64-8F5C-22CD4A06DB22" -> [ok |-> TRUE, id |-> ServerPKIID]
    [] s = "0b1f4c9e-3c1d-4e0a-9b57-6d2f8a4e7c11" -> [ok |-> TRUE, id |-> OtherPKIID]
    [] OTHER -> [ok |-> FALSE, id |-> ""]

\* time strings: decimal integers, RFC 3339 strings (the wall clock shown and
\* its zone offset), and a string in neither format
NoTime == [unix |-> -1, loc |-> 0]
BadTimeString == [fmt |-> "other", sec |-> 0, off |-> 0]
IntString(n) == [fmt |-> "int", sec |-> n, off |-> 0]
RFC3339String(wall, off) == [fmt |-> "rfc3339", sec |-> wall, off |-> off]

TimeStrings ==
  {BadTimeString}
  \cup { IntString(u) : u \in Instants }
  \cup { RFC3339String(MinTime.unix + z, z) : z \in Zones }

\* a string that starts with the decimal digits of n and goes on with other
\* characters ("7200s"): neither an integer nor an RFC 3339 time
DigitsThenOther(n) == [fmt |-> "other", sec |-> n, off |-> 0]

\* parseTime taking the integer from the leading digits of the string
parseTimeOfPrefix(s) ==
  IF s.fmt = "int" \/ (s.fmt = "other" /\ s.sec > 0)
  THEN [ok |-> TRUE, t |-> [unix |-> s.sec, loc |-> 0]]
  ELSE IF s.fmt = "rfc3339"
       THEN [ok |-> TRUE, t |-> [unix |-> s.sec - s.off, loc |-> s.off]]
       ELSE [ok |-> FALSE, t |-> NoTime]

\* parseTime(s): integer seconds first, then RFC 3339
parseTime(s) ==
  IF s.fmt = "int" THEN [ok |-> TRUE, t |-> [unix |-> s.sec, loc |-> 0]]
  ELSE IF s.fmt = "rfc3339"
       THEN [ok |-> TRUE, t |-> [unix |-> s.sec - s.off, loc |-> s.off]]
       ELSE [ok |-> FALSE, t |-> NoTime]

\* url.Values of a request: which parameters are present, and their strings
Query(hasID, id, hasTime, time) ==
  [hasID |-> hasID, id |-> id, hasTime |-> hasTime, time |-> time]

NoQuery == Query(FALSE, "", FALSE, BadTimeString)

\* the requests of the model: every pki_id with a time in range, every time
\* string without pki_id, and a request with no parameter
Queries ==
  { Query(TRUE, id, TRUE, IntString(MinTime.unix)) : id \in UUIDStrings }
  \cup { Query(FALSE, "", TRUE, s) : s \in TimeStrings }
  \cup { Query(FALSE, "", FALSE, BadTimeString) }

(***************************************************************************)
(* Keys and their encodings.                                                *)
(***************************************************************************)
\* priv.PublicKey(): the point of the private scalar
PublicKey(k) == [point |-> k]

NoOutput == [kind |-> "none", priv |-> NoKey, pub |-> PublicKey(NoKey)]
\* x509.MarshalPKIXPublicKey(priv.PublicKey())
SPKI(k) == [kind |-> "spki", priv |-> NoKey, pub |-> PublicKey(k)]
\* x509.MarshalPKCS8PrivateKey(priv)
PKCS8(k) == [kind |-> "pkcs8", priv |-> k, pub |-> PublicKey(k)]

(***************************************************************************)
(* The state of a proc between calls.                                       *)
(***************************************************************************)
NoReading == [nts |-> -1, system |-> -1]

Idle ==
  [ pc |-> "idle", entry |-> "none", query |-> NoQuery, t |-> NoTime, ch |-> 0,
    last |-> NoReading, now |-> -1,
    code |-> 0, msg |-> "", body |-> NoOutput,
    err |-> "none", secret |-> NoBytes, key |-> NoKey ]

(***************************************************************************)
(* Channels.  done = make(chan error, 1): a send proceeds while the buffer  *)
(* holds no value, a receive while it holds one.                            *)
(***************************************************************************)
ChanCap == 1

CanSend(c) == Len(chans[c].buf) < ChanCap
CanRecv(c) == Len(chans[c].buf) > 0

\* sent is the history of the values sent on the channel so far
NewChan(path) ==
  [buf |-> <<>>, pc |-> "rand", path |-> path, secret |-> NoBlob, sent |-> <<>>]

(***************************************************************************)
(* createSecretFileInternal(path, done), the goroutine of channel c.        *)
(* Neither error branch returns: after reporting an error the goroutine     *)
(* goes on to the next statement.                                           *)
(***************************************************************************)
\* after the RNG read: report a failure, or go on to os.WriteFile
AfterRand(ok) == IF ok THEN "open" ELSE "sendEntropy"

\* io.ReadFull(rand.Reader, secret)
InternalRand(c) ==
  /\ chans[c].pc = "rand"
  /\ \E ok \in BOOLEAN :
       /\ ~ok => faults < MaxFaults
       /\ faults' = IF ok THEN faults ELSE faults + 1
       /\ chans' = [chans EXCEPT ![c].secret = [rand |-> c, full |-> ok],
                                 ![c].pc = AfterRand(ok)]
  /\ UNCHANGED <<files, privileged, configVars, keygen, writers, writersMu, proc, calls, released, outputs, clockVars>>

\* done <- fmt.Errorf("insufficient entropy: %w", err)
InternalSendEntropy(c) ==
  /\ chans[c].pc = "sendEntropy"
  /\ CanSend(c)
  /\ chans' = [chans EXCEPT ![c].buf = Append(@, "entropy"), ![c].pc = "open",
                            ![c].sent = Append(@, "entropy")]
  /\ UNCHANGED <<files, privileged, configVars, keygen, writers, writersMu, proc, calls, faults, released, outputs, clockVars>>

\* whether OpenFile(path, O_WRONLY|O_CREATE|O_TRUNC, fileMode) is permitted:
\* the secret files are created with mode 0400, which only a privileged
\* process may open for writing again
MayOpenForWrite(path) == ~files[path].exists \/ privileged

\* os.WriteFile, first half: create or truncate the file
InternalOpen(c) ==
  /\ chans[c].pc = "open"
  /\ \E ok \in BOOLEAN :
       /\ ok => MayOpenForWrite(chans[c].path)
       /\ (~ok /\ MayOpenForWrite(chans[c].path)) => faults < MaxFaults
       /\ faults' = IF ~ok /\ MayOpenForWrite(chans[c].path) THEN faults + 1 ELSE faults
       /\ files' = IF ok THEN [files EXCEPT ![chans[c].path] = FileOf(NoBytes)] ELSE files
       /\ chans' = [chans EXCEPT ![c].pc = IF ok THEN "write" ELSE "sendWrite"]
  /\ UNCHANGED <<privileged, configVars, keygen, writers, writersMu, proc, calls, released, outputs, clockVars>>

\* os.WriteFile, second half: write the 32 bytes and close
InternalWrite(c) ==
  /\ chans[c].pc = "write"
  /\ \E ok \in BOOLEAN :
       /\ ~ok => faults < MaxFaults
       /\ faults' = IF ok THEN faults ELSE faults + 1
       /\ files' = IF ok
                   THEN [files EXCEPT ![chans[c].path] = FileOf(BytesOf(chans[c].secret))]
                   ELSE files
       /\ chans' = [chans EXCEPT ![c].pc = IF ok THEN "sendNil" ELSE "sendWrite"]
  /\ UNCHANGED <<privileged, configVars, keygen, writers, writersMu, proc, calls, released, outputs, clockVars>>

\* done <- fmt.Errorf("failed to write secret file %s: %w", path, err)
InternalSendWrite(c) ==
  /\ chans[c].pc = "sendWrite"
  /\ CanSend(c)
  /\ chans' = [chans EXCEPT ![c].buf = Append(@, "write"), ![c].pc = "sendNil",
                            ![c].sent = Append(@, "write")]
  /\ UNCHANGED <<files, privileged, configVars, keygen, writers, writersMu, proc, calls, faults, released, outputs, clockVars>>

\* done <- nil
InternalSendNil(c) ==
  /\ chans[c].pc = "sendNil"
  /\ CanSend(c)
  /\ chans' = [chans EXCEPT ![c].buf = Append(@, "nil"), ![c].pc = "exit",
                            ![c].sent = Append(@, "nil")]
  /\ UNCHANGED <<files, privileged, configVars, keygen, writers, writersMu, proc, calls, faults, released, outputs, clockVars>>

(***************************************************************************)
(* KeyManager.GetKeyForTime and secretManager.GetSecretForTime, run by a    *)
(* proc p.  A call ends in the state "ret", where its result is visible.    *)
(***************************************************************************)
\* the generic message of a handler's 500 response after GetKeyForTime or
\* the marshalling failed
internalError(entry) ==
  IF entry = "getPublicKey" THEN "Server failed to retrieve public key"
  ELSE "Server failed to retrieve private key"

\* a handler that answers 500 with the text of the error
RespondWithReason(rec) ==
  IF rec.entry = "GetKeyForTime" THEN rec
  ELSE IF rec.err # "none"
       THEN [rec EXCEPT !.code = 500, !.msg = rec.err]
       ELSE [rec EXCEPT !.code = 200,
                        !.body = IF rec.entry = "getPublicKey"
                                 THEN SPKI(rec.key) ELSE PKCS8(rec.key)]

\* what the caller of GetKeyForTime makes of its result: a handler answers
\* 500 with the generic message on an error and 200 with the encoded key
\* otherwise; a direct caller has the result as it is
Respond(rec) ==
  IF rec.entry = "GetKeyForTime" THEN rec
  ELSE IF rec.err # "none"
       THEN [rec EXCEPT !.code = 500, !.msg = internalError(rec.entry)]
       ELSE [rec EXCEPT !.code = 200,
                        !.body = IF rec.entry = "getPublicKey"
                                 THEN SPKI(rec.key) ELSE PKCS8(rec.key)]

\* the result of GetKeyForTime once GetSecretForTime returned secret:
\* the key derived from it for the call's time
KeyDone(rec, secret) ==
  Respond([rec EXCEPT !.pc = "ret", !.err = "none", !.secret = secret,
                      !.key = deriveKeyForTime(secret, rec.t), !.ch = 0])

\* the result of GetKeyForTime when it returns the error err
KeyFailed(rec, err) ==
  Respond([rec EXCEPT !.pc = "ret", !.err = err, !.ch = 0])

\* the history of successful results, after the call of record rec ended
Released(rec) ==
  IF rec.pc = "ret" /\ rec.err = "none" /\ rec.key # NoKey
  THEN [released EXCEPT ![rec.t.unix] = @ \cup {rec.key}]
  ELSE released

\* the history of the handlers' 200 answers, after the call of record rec
\* ended
Answers(rec) ==
  IF rec.pc = "ret" /\ rec.code = 200
  THEN [outputs EXCEPT ![rec.t.unix] = @ \cup {rec.body}]
  ELSE outputs

\* GetKeyForTime with the bounds themselves out of range
GetKeyForTimeExclusive(rec, t) ==
  IF Compare(t, MinTime) <= 0 \/ Compare(t, MaxTime) >= 0
  THEN KeyFailed([rec EXCEPT !.t = t], "OutOfRange")
  ELSE [rec EXCEPT !.t = t, !.pc = "tryRead"]

\* GetKeyForTime(t), up to the call of GetSecretForTime
GetKeyForTime(rec, t) ==
  IF Compare(t, MinTime) < 0 \/ Compare(t, MaxTime) > 0
  THEN KeyFailed([rec EXCEPT !.t = t], "OutOfRange")
  ELSE [rec EXCEPT !.t = t, !.pc = "tryRead"]

\* a direct call of GetKeyForTime (as the package's tests and the handlers make)
Call(p, t) ==
  /\ proc[p].pc = "idle"
  /\ calls < MaxCalls
  /\ calls' = calls + 1
  /\ proc' = [proc EXCEPT ![p] = GetKeyForTime([Idle EXCEPT !.entry = "GetKeyForTime"], t)]
  /\ released' = Released(proc'[p])
  /\ outputs' = Answers(proc'[p])
  /\ UNCHANGED <<files, privileged, configVars, keygen, writers, writersMu, chans, faults, clockVars>>

\* what GetSecretForTime does with the result (contents, exists, err) of
\* tryReadFile: an error is reported as corruption, contents of an existing
\* file are the secret, and a missing file is created
AfterTryRead(rec, entry, readErr) ==
  IF readErr THEN KeyFailed(rec, "corrupted")
  ELSE IF entry.exists THEN KeyDone(rec, entry.data)
  ELSE [rec EXCEPT !.pc = "lock"]

\* secret, ok, err := tryReadFile(path)
TryRead(p) ==
  /\ proc[p].pc = "tryRead"
  /\ \E readErr \in BOOLEAN :
       /\ readErr => (faults < MaxFaults /\ files[SecretFile(proc[p].t)].exists)
       /\ faults' = IF readErr THEN faults + 1 ELSE faults
       /\ proc' = [proc EXCEPT ![p] =
                     AfterTryRead(proc[p], files[SecretFile(proc[p].t)], readErr)]
  /\ released' = Released(proc'[p])
  /\ outputs' = Answers(proc'[p])
  /\ UNCHANGED <<files, privileged, configVars, keygen, writers, writersMu, chans, calls, clockVars>>

\* createSecretFile once no earlier writer stands in the way:
\* done = make(chan error, 1); s.writers[path] = done;
\* go createSecretFileInternal(path, done)
StartWriter(p, cs) ==
  /\ chans' = Append(cs, NewChan(SecretFile(proc[p].t)))
  /\ writers' = [writers EXCEPT ![SecretFile(proc[p].t)] = Len(cs) + 1]
  /\ proc' = [proc EXCEPT ![p].pc = "recvDone", ![p].ch = Len(cs) + 1]

\* createSecretFile: s.writersMu.Lock(), with the unlock deferred to the
\* function's return, and the lookup of s.writers[path]
Lock(p) ==
  /\ proc[p].pc = "lock"
  /\ writersMu = "free"
  /\ writersMu' = p
  /\ IF writers[SecretFile(proc[p].t)] = 0
     THEN StartWriter(p, chans)
     ELSE /\ proc' = [proc EXCEPT ![p].pc = "recvPrev",
                                  ![p].ch = writers[SecretFile(proc[p].t)]]
          /\ UNCHANGED <<chans, writers>>
  /\ UNCHANGED <<files, privileged, configVars, keygen, calls, faults, released, outputs, clockVars>>

\* if err := <-ch; err != nil { return nil, err }
RecvPrev(p) ==
  /\ proc[p].pc = "recvPrev"
  /\ CanRecv(proc[p].ch)
  /\ LET msg == Head(chans[proc[p].ch].buf)
         cs == [chans EXCEPT ![proc[p].ch].buf = Tail(@)]
     IN  IF msg # "nil"
         THEN /\ proc' = [proc EXCEPT ![p] = KeyFailed(proc[p], msg)]
              /\ chans' = cs
              /\ writersMu' = "free"
              /\ UNCHANGED writers
         ELSE /\ StartWriter(p, cs)
              /\ UNCHANGED writersMu
  /\ UNCHANGED <<files, privileged, configVars, keygen, calls, faults, released, outputs, clockVars>>

\* if err := <-done; err != nil { return nil, err }
RecvDone(p) ==
  /\ proc[p].pc = "recvDone"
  /\ CanRecv(proc[p].ch)
  /\ LET msg == Head(chans[proc[p].ch].buf)
     IN  /\ chans' = [chans EXCEPT ![proc[p].ch].buf = Tail(@)]
         /\ IF msg # "nil"
            THEN /\ proc' = [proc EXCEPT ![p] = KeyFailed(proc[p], msg)]
                 /\ writersMu' = "free"
            ELSE /\ proc' = [proc EXCEPT ![p].pc = "reRead"]
                 /\ UNCHANGED writersMu
  /\ UNCHANGED <<files, privileged, configVars, keygen, writers, calls, faults, released, outputs, clockVars>>

\* what createSecretFile returns from its final os.ReadFile(path)
AfterReRead(rec, entry, readErr) ==
  IF readErr \/ ~entry.exists THEN KeyFailed(rec, "read")
  ELSE KeyDone(rec, entry.data)

\* return os.ReadFile(path), and the deferred s.writersMu.Unlock()
ReRead(p) ==
  /\ proc[p].pc = "reRead"
  /\ \E readErr \in BOOLEAN :
       /\ readErr => faults < MaxFaults
       /\ faults' = IF readErr THEN faults + 1 ELSE faults
       /\ proc' = [proc EXCEPT ![p] =
                     AfterReRead(proc[p], files[SecretFile(proc[p].t)], readErr)]
  /\ writersMu' = "free"
  /\ released' = Released(proc'[p])
  /\ outputs' = Answers(proc'[p])
  /\ UNCHANGED <<files, privileged, configVars, keygen, writers, chans, calls, clockVars>>

\* the caller takes the result; the proc is free for its next call
Return(p) ==
  /\ proc[p].pc = "ret"
  /\ proc' = [proc EXCEPT ![p] = Idle]
  /\ UNCHANGED <<files, privileged, configVars, keygen, writers, writersMu, chans, calls, faults, released, outputs, clockVars>>

(***************************************************************************)
(* Server.getPublicKey and Server.getPrivateKey.                            *)
(***************************************************************************)
\* an answer that ends the request at once
Reject(rec, code, msg) == [rec EXCEPT !.pc = "ret", !.code = code, !.msg = msg]

\* the PKI filter comparing the parameter's text with the canonical text of
\* the server's ID instead of comparing the parsed IDs
PKIFilterByText(q) ==
  IF ~q.hasID THEN 0
  ELSE IF ~ParseUUID(q.id).ok THEN 400
  ELSE IF q.id # "aa625eb2-d75d-4a64-8f5c-22cd4a06db22" THEN 404
  ELSE 0

\* the PKI filter: the status it ends the request with, or 0 to go on
PKIFilter(q) ==
  IF ~q.hasID THEN 0
  ELSE IF ~ParseUUID(q.id).ok THEN 400
  ELSE IF ParseUUID(q.id).id # ServerPKIID THEN 404
  ELSE 0

\* t.After(u) with the comparison turned round
AfterReversed(t, u) == t.unix < u.unix

\* t.After(u) that also holds at t = u
AfterOrEqual(t, u) == t.unix >= u.unix

\* the time t.After(u)
After(t, u) == t.unix > u.unix

\* both handlers with the checks of the time before the PKI filter
ValidateTimeFirst(rec, q) ==
  IF ~q.hasTime THEN Reject(rec, 400, "time parameter is required")
  ELSE IF ~parseTime(q.time).ok THEN Reject(rec, 400, "Invalid time parameter")
  ELSE IF Compare(parseTime(q.time).t, MinTime) < 0 \/ Compare(parseTime(q.time).t, MaxTime) > 0
       THEN Reject(rec, 400, "Time out of range")
  ELSE IF PKIFilter(q) = 400 THEN Reject(rec, 400, "Invalid UUID")
  ELSE IF PKIFilter(q) = 404 THEN Reject(rec, 404, "Server does not have PKI")
       ELSE [rec EXCEPT !.pc = "checked", !.t = parseTime(q.time).t]

\* both handlers up to the range check of the time; the request goes on in
\* "checked" with its time t
Validate(rec, q) ==
  IF PKIFilter(q) = 400 THEN Reject(rec, 400, "Invalid UUID")
  ELSE IF PKIFilter(q) = 404 THEN Reject(rec, 404, "Server does not have PKI")
  ELSE IF ~q.hasTime THEN Reject(rec, 400, "time parameter is required")
  ELSE IF ~parseTime(q.time).ok THEN Reject(rec, 400, "Invalid time parameter")
  ELSE IF Compare(parseTime(q.time).t, MinTime) < 0 \/ Compare(parseTime(q.time).t, MaxTime) > 0
       THEN Reject(rec, 400, "Time out of range")
       ELSE [rec EXCEPT !.pc = "checked", !.t = parseTime(q.time).t]

\* both handlers going from the range check to the clock
AfterValidateViaClock(rec) ==
  IF rec.pc # "checked" THEN rec ELSE [rec EXCEPT !.pc = "nowGet"]

\* getPublicKey goes from the range check to GetKeyForTime, getPrivateKey to
\* the clock
AfterValidate(rec) ==
  IF rec.pc # "checked" THEN rec
  ELSE IF rec.entry = "getPublicKey" THEN GetKeyForTime(rec, rec.t)
  ELSE [rec EXCEPT !.pc = "nowGet"]

\* a request arrives at handler p
Request(p, entry, q) ==
  /\ proc[p].pc = "idle"
  /\ calls < MaxCalls
  /\ calls' = calls + 1
  /\ proc' = [proc EXCEPT ![p] =
                AfterValidate(Validate([Idle EXCEPT !.entry = entry, !.query = q], q))]
  /\ UNCHANGED <<files, privileged, configVars, keygen, writers, writersMu, chans, faults, released, outputs, clockVars>>

(***************************************************************************)
(* SecureClock.Now, as getPrivateKey calls it.                              *)
(***************************************************************************)
\* last := c.cell.Get()
NowGet(p) ==
  /\ proc[p].pc = "nowGet"
  /\ proc' = [proc EXCEPT ![p].last = cell, ![p].pc = "nowSince"]
  /\ UNCHANGED <<files, privileged, configVars, keygen, writers, writersMu, chans, calls, faults, released, outputs, clockVars>>

\* delta := time.Since(last.system)
Since(system) == mono - system

\* Now() from the reading last: an error when the reading is stale,
\* otherwise last.nts.Add(delta)
StaleStrict(last) == Since(last.system) > ntsStaleThreshold
Stale(last) == Since(last.system) >= ntsStaleThreshold
NowOf(last) == last.nts + Since(last.system)

\* getPrivateKey after Now() that looks the key up even when it has decided
\* to refuse
AfterNowLookingUp(rec) ==
  IF Stale(rec.last)
  THEN [rec EXCEPT !.pc = "tryRead", !.code = 500,
                   !.msg = "Server could securely determine the current time"]
  ELSE IF After(rec.t, [unix |-> NowOf(rec.last), loc |-> 0])
       THEN [rec EXCEPT !.pc = "tryRead", !.now = NowOf(rec.last), !.code = 403,
                        !.msg = "Server does not disclose private keys for future timestamps"]
       ELSE GetKeyForTime([rec EXCEPT !.now = NowOf(rec.last)], rec.t)

\* getPrivateKey after Now() that refuses a time after now with status 401
AfterNowUnauthorized(rec) ==
  IF Stale(rec.last)
  THEN Reject(rec, 500, "Server could securely determine the current time")
  ELSE IF After(rec.t, [unix |-> NowOf(rec.last), loc |-> 0])
       THEN Reject([rec EXCEPT !.now = NowOf(rec.last)], 401,
                   "Server does not disclose private keys for future timestamps")
       ELSE GetKeyForTime([rec EXCEPT !.now = NowOf(rec.last)], rec.t)

\* getPrivateKey after Now(): 500 on a stale clock, 403 for a time after
\* now, otherwise the key lookup
AfterNow(rec) ==
  IF Stale(rec.last)
  THEN Reject(rec, 500, "Server could securely determine the current time")
  ELSE IF After(rec.t, [unix |-> NowOf(rec.last), loc |-> 0])
       THEN Reject([rec EXCEPT !.now = NowOf(rec.last)], 403,
                   "Server does not disclose private keys for future timestamps")
       ELSE GetKeyForTime([rec EXCEPT !.now = NowOf(rec.last)], rec.t)

\* the rest of Now() and the release decision
NowSince(p) ==
  /\ proc[p].pc = "nowSince"
  /\ proc' = [proc EXCEPT ![p] = AfterNow(proc[p])]
  /\ UNCHANGED <<files, privileged, configVars, keygen, writers, writersMu, chans, calls, faults, released, outputs, clockVars>>

(***************************************************************************)
(* The clocks and the NTS servers (the environment).                        *)
(***************************************************************************)
\* the configured NTS addresses, in order
addrs == <<"nts1", "nts2">>

\* how far the time of an NTS response is behind the true time at which the
\* response arrives
NTSLags == {0, retryPeriod}

\* the amounts true time advances by in one step
TickSteps == {retryPeriod, pollPeriod, ntsStaleThreshold - retryPeriod, ntsStaleThreshold}

\* the sets of NTS servers that may be responding at some moment
Addresses == {addrs[i] : i \in 1..Len(addrs)}
UpSets == SUBSET Addresses

\* time passes; the monotonic clock advances with it, or stands still
\* (the host was suspended)
Tick(d, runs) ==
  /\ ticks < MaxTicks
  /\ ticks' = ticks + 1
  /\ trueTime' = trueTime + d
  /\ mono' = IF runs THEN mono + d ELSE mono
  /\ UNCHANGED <<files, privileged, configVars, keygen, writers, writersMu, chans, proc, calls, faults, released, outputs,
                 cell, cellMu, histVars, poller>>

(***************************************************************************)
(* ntsPoller: createSession, readTime, pollOnce and PollLoop.  Which        *)
(* servers respond is the environment's choice at each attempt (up).        *)
(***************************************************************************)
\* createSession connecting to the last address that responds
RECURSIVE createSessionLast(_, _)
createSessionLast(as, up) ==
  IF as = <<>> THEN ""
  ELSE IF createSessionLast(Tail(as), up) # "" THEN createSessionLast(Tail(as), up)
  ELSE IF Head(as) \in up THEN Head(as)
  ELSE ""

\* createSession(addrs): the first address, in order, that responds;
\* "" when none does
RECURSIVE createSession(_, _)
createSession(as, up) ==
  IF as = <<>> THEN ""
  ELSE IF Head(as) \in up THEN Head(as)
  ELSE createSession(Tail(as), up)

\* a createSession call: the servers responding when it was made, and the
\* address it connected to
Attempt(up, session) == [called |-> TRUE, up |-> up, session |-> session]
NoAttempt == [called |-> FALSE, up |-> {}, session |-> ""]

\* PollLoop after a failed poll: consecutiveFailures++, and the next
\* iteration sleeps retryPeriod
PollFailed(pl) ==
  [pl EXCEPT !.pc = "sleep", !.failures = @ + 1, !.deadline = mono + retryPeriod]

\* PollLoop after a successful poll that leaves consecutiveFailures as it is
PollSucceededKeepingCount(pl) ==
  [pl EXCEPT !.pc = "sleep", !.deadline = mono + IF pl.failures > 0 THEN retryPeriod ELSE pollPeriod,
             !.resp = -1]

\* PollLoop after a successful poll: consecutiveFailures = 0, and the next
\* iteration sleeps pollPeriod
PollSucceeded(pl) ==
  [pl EXCEPT !.pc = "sleep", !.failures = 0, !.deadline = mono + pollPeriod,
             !.resp = -1]

\* whether pollOnce is called with reinit = true
Reinit(pl) == pl.failures > maxConsecutiveFailures

\* pollOnce(reinit) storing the result of createSession before looking at
\* its error
StartPollDroppingSession(pl, up) ==
  IF Reinit(pl)
  THEN IF createSession(addrs, up) = ""
       THEN [PollFailed(pl) EXCEPT !.session = ""]
       ELSE [pl EXCEPT !.pc = "query", !.session = createSession(addrs, up),
                       !.made = @ + 1]
  ELSE [pl EXCEPT !.pc = "query"]

\* pollOnce(reinit) up to readTime: with reinit a new session is made
\* first, and the poll fails when none can be made
StartPoll(pl, up) ==
  IF Reinit(pl)
  THEN IF createSession(addrs, up) = ""
       THEN PollFailed(pl)
       ELSE [pl EXCEPT !.pc = "query", !.session = createSession(addrs, up),
                       !.made = @ + 1]
  ELSE [pl EXCEPT !.pc = "query"]

\* <-time.After(d) fires and pollOnce starts
PollWake(up) ==
  /\ poller.pc = "sleep"
  /\ mono >= poller.deadline
  /\ poller' = StartPoll(poller, up)
  /\ attempt' = IF Reinit(poller) THEN Attempt(up, createSession(addrs, up)) ELSE attempt
  /\ steady' = IF Reinit(poller) THEN steady \cap up ELSE steady
  /\ UNCHANGED <<files, privileged, configVars, keygen, writers, writersMu, chans, proc, calls, faults, released, outputs,
                 trueTime, mono, ticks, cell, cellMu, puts, resps>>

\* <-time.After(d): time passes, the monotonic clock running, until the
\* timer of PollLoop fires
Sleep ==
  /\ poller.pc = "sleep"
  /\ mono < poller.deadline
  /\ ticks < MaxPolls
  /\ ticks' = ticks + 1
  /\ trueTime' = trueTime + (poller.deadline - mono)
  /\ mono' = poller.deadline
  /\ UNCHANGED <<files, privileged, configVars, keygen, writers, writersMu, chans, proc, calls, faults,
                 released, outputs, cell, cellMu, histVars, poller>>

\* readTime: resp, err := session.Query(); it fails when the session's
\* server does not respond, and a response carries a time not after the
\* true time of its arrival
PollQuery(up, lag) ==
  /\ poller.pc = "query"
  /\ poller' = IF poller.session \in up
               THEN [poller EXCEPT !.pc = "response", !.resp = trueTime - lag]
               ELSE PollFailed(poller)
  /\ resps' = IF poller.session \in up THEN resps \cup {trueTime - lag} ELSE resps
  /\ steady' = steady \cap up
  /\ UNCHANGED <<files, privileged, configVars, keygen, writers, writersMu, chans, proc, calls, faults, released, outputs,
                 trueTime, mono, ticks, cell, cellMu, puts, attempt>>

\* readTime pairing the response with a system reading taken before the
\* query, when the poll was due
readTimeBefore(resp) == [nts |-> resp, system |-> poller.deadline]

\* readTime: nts := resp.Time; system := time.Now()
readTime(resp) == [nts |-> resp, system |-> mono]

\* the rest of readTime, p.cell.Put(reading), and PollLoop's bookkeeping
PollPut ==
  /\ poller.pc = "response"
  /\ cell' = readTime(poller.resp)
  /\ poller' = PollSucceeded(poller)
  /\ puts' = puts \cup {readTime(poller.resp)}
  /\ steady' = Addresses
  /\ UNCHANGED <<files, privileged, configVars, keygen, writers, writersMu, chans, proc, calls, faults, released, outputs,
                 trueTime, mono, ticks, cellMu, resps, attempt>>

(***************************************************************************)
(* NewSecureClock and newPoller.  up are the servers responding when the    *)
(* session is made, up2 those responding when the first query is made.      *)
(***************************************************************************)
\* the poller before newPoller has run
NoPoller ==
  [pc |-> "new", failures |-> 0, session |-> "", made |-> 0, deadline |-> 0, resp |-> -1]

\* newPoller going on with the zero reading when the first query fails
newPollerIgnoringQuery(up, up2, lag) ==
  IF createSession(addrs, up) = ""
  THEN [ok |-> FALSE, session |-> "", initial |-> NoReading]
  ELSE [ok |-> TRUE, session |-> createSession(addrs, up),
        initial |-> IF createSession(addrs, up) \in up2
                    THEN readTime(trueTime - lag) ELSE NoReading]

\* newPoller(addrs): createSession, then readTime; an error when either
\* fails, otherwise the poller with the first reading in its cell
newPoller(up, up2, lag) ==
  IF createSession(addrs, up) = ""
  THEN [ok |-> FALSE, session |-> "", initial |-> NoReading]
  ELSE IF createSession(addrs, up) \notin up2
       THEN [ok |-> FALSE, session |-> "", initial |-> NoReading]
       ELSE [ok |-> TRUE, session |-> createSession(addrs, up),
             initial |-> readTime(trueTime - lag)]

\* NewSecureClock: newPoller, and on success go poller.PollLoop(); on
\* failure there is no clock
NewSecureClock(up, up2, lag) ==
  /\ poller.pc = "new"
  /\ attempt' = Attempt(up, createSession(addrs, up))
  /\ resps' = IF createSession(addrs, up) \in up2 THEN resps \cup {trueTime - lag} ELSE resps
  /\ IF newPoller(up, up2, lag).ok
     THEN /\ cell' = newPoller(up, up2, lag).initial
          /\ puts' = {newPoller(up, up2, lag).initial}
          /\ poller' = [NoPoller EXCEPT !.pc = "sleep", !.session = newPoller(up, up2, lag).session,
                                        !.made = 1, !.deadline = mono + pollPeriod]
     ELSE /\ poller' = [NoPoller EXCEPT !.pc = "failed"]
          /\ UNCHANGED <<cell, puts>>
  /\ UNCHANGED <<files, privileged, configVars, keygen, writers, writersMu, chans, proc, calls, faults,
                 released, outputs, trueTime, mono, ticks, cellMu, steady>>

(***************************************************************************)
(* muCell.Get and muCell.Put step by step: the mutex is taken, the two      *)
(* words of the clockReading are copied one after the other, the mutex is   *)
(* given back (the deferred Unlock).  PollPut and NowGet above are the same *)
(* operations taken as one step each.                                       *)
(***************************************************************************)
\* a Lock that does not wait for the holder
CanLockHeld(mu) == TRUE

\* c.mu.Lock() proceeds when nobody holds the mutex
CanLock(mu) == mu = "free"

cellFrame == <<files, privileged, configVars, keygen, writers, writersMu, chans, calls, faults,
               released, outputs, trueTime, mono, ticks, resps, attempt>>

\* Get: c.mu.Lock()
GetLock(p) ==
  /\ proc[p].pc = "nowGet"
  /\ CanLock(cellMu)
  /\ cellMu' = p
  /\ proc' = [proc EXCEPT ![p].pc = "getNts"]
  /\ UNCHANGED <<cellFrame, cell, puts, steady, poller>>

\* Get: return c.value, its first word
GetNts(p) ==
  /\ proc[p].pc = "getNts"
  /\ proc' = [proc EXCEPT ![p].last.nts = cell.nts, ![p].pc = "getSystem"]
  /\ UNCHANGED <<cellFrame, cell, cellMu, puts, steady, poller>>

\* Get: return c.value, its second word
GetSystem(p) ==
  /\ proc[p].pc = "getSystem"
  /\ proc' = [proc EXCEPT ![p].last.system = cell.system, ![p].pc = "getUnlock"]
  /\ UNCHANGED <<cellFrame, cell, cellMu, puts, steady, poller>>

\* Get: the deferred c.mu.Unlock(), and Now() goes on with the value
GetUnlock(p) ==
  /\ proc[p].pc = "getUnlock"
  /\ cellMu' = "free"
  /\ proc' = [proc EXCEPT ![p].pc = "nowSince"]
  /\ UNCHANGED <<cellFrame, cell, puts, steady, poller>>

\* the rest of readTime, and Put: c.mu.Lock()
PutLock ==
  /\ poller.pc = "response"
  /\ CanLock(cellMu)
  /\ cellMu' = "poller"
  /\ poller' = [poller EXCEPT !.pc = "putNts"]
  /\ puts' = puts \cup {readTime(poller.resp)}
  /\ UNCHANGED <<cellFrame, cell, steady, proc>>

\* Put: c.value = value, its first word
PutNts ==
  /\ poller.pc = "putNts"
  /\ cell' = [cell EXCEPT !.nts = readTime(poller.resp).nts]
  /\ poller' = [poller EXCEPT !.pc = "putSystem"]
  /\ UNCHANGED <<cellFrame, cellMu, puts, steady, proc>>

\* Put: c.value = value, its second word
PutSystem ==
  /\ poller.pc = "putSystem"
  /\ cell' = [cell EXCEPT !.system = readTime(poller.resp).system]
  /\ poller' = [poller EXCEPT !.pc = "putUnlock"]
  /\ UNCHANGED <<cellFrame, cellMu, puts, steady, proc>>

\* Put: the deferred c.mu.Unlock(), and PollLoop's bookkeeping
PutUnlock ==
  /\ poller.pc = "putUnlock"
  /\ cellMu' = "free"
  /\ poller' = PollSucceeded(poller)
  /\ steady' = Addresses
  /\ UNCHANGED <<cellFrame, cell, puts, proc>>

(***************************************************************************)
(* The configuration sources and syncrhonizeConfig.  A configuration text   *)
(* is the sequence of its characters; a name or a UUID string counts as one *)
(* character, a blank and a newline as one each.                            *)
(***************************************************************************)
IsSpace(c) == c \in {" ", "\n"}

\* strings.TrimSpace
RECURSIVE TrimLeft(_)
TrimLeft(str) == IF str # <<>> /\ IsSpace(Head(str)) THEN TrimLeft(Tail(str)) ELSE str

RECURSIVE TrimRight(_)
TrimRight(str) ==
  IF str # <<>> /\ IsSpace(str[Len(str)])
  THEN TrimRight(SubSeq(str, 1, Len(str) - 1))
  ELSE str

TrimSpace(str) == TrimRight(TrimLeft(str))

\* fileSource.Set: a value that does not end with a newline gets one
WithNewline(value) ==
  IF value # <<>> /\ value[Len(value)] # "\n" THEN Append(value, "\n") ELSE value

\* the sources
MemSource(str) == [kind |-> "mem", str |-> str, path |-> ""]
FileSource(path) == [kind |-> "file", str |-> <<>>, path |-> path]
GenSource == [kind |-> "gen", str |-> <<>>, path |-> ""]

\* the name and uuid files: missing, or present with their text
NoFile == [exists |-> FALSE, data |-> <<>>]
TextFile(str) == [exists |-> TRUE, data |-> str]
ConfigPaths == {"name", "uuid"}

\* src.Get() in directory d with g UUIDs generated so far
Get(src, d, g) ==
  CASE src.kind = "mem" ->
         [value |-> src.str, ok |-> src.str # <<>>, gen |-> g]
    [] src.kind = "file" ->
         IF d[src.path].exists
         THEN [value |-> TrimSpace(d[src.path].data), ok |-> TRUE, gen |-> g]
         ELSE [value |-> <<>>, ok |-> FALSE, gen |-> g]
    [] OTHER ->
         [value |-> <<GeneratedUUIDs[g + 1]>>, ok |-> TRUE, gen |-> g + 1]

\* the first loop without its break: the value of the last source that
\* reports one
RECURSIVE LastValue(_, _, _, _)
LastValue(sources, i, d, g) ==
  IF i > Len(sources) THEN [value |-> <<>>, gen |-> g]
  ELSE LET here == Get(sources[i], d, g)
           rest == LastValue(sources, i + 1, d, here.gen)
       IN  IF rest.value # <<>> \/ ~here.ok THEN rest
           ELSE [value |-> here.value, gen |-> rest.gen]

\* the first loop of syncrhonizeConfig from source i on: the value of the
\* first source that reports one, or the empty value
RECURSIVE FirstValue(_, _, _, _)
FirstValue(sources, i, d, g) ==
  IF i > Len(sources) THEN [value |-> <<>>, gen |-> g]
  ELSE IF ~Get(sources[i], d, g).ok
       THEN FirstValue(sources, i + 1, d, Get(sources[i], d, g).gen)
       ELSE [value |-> Get(sources[i], d, g).value, gen |-> Get(sources[i], d, g).gen]

\* os.WriteFile(path, data, fileMode) in directory d: an existing file has
\* mode 0400 and only a privileged process may open it for writing; a write
\* that fails after the file was created or truncated leaves it empty
WriteFile(path, data, d, failing) ==
  IF d[path].exists /\ ~privileged THEN [err |-> TRUE, dir |-> d]
  ELSE IF failing = path
       THEN [err |-> TRUE, dir |-> [d EXCEPT ![path] = TextFile(<<>>)]]
       ELSE [err |-> FALSE, dir |-> [d EXCEPT ![path] = TextFile(data)]]

\* src.Set(value) with a file source that overwrites whatever is there
SetOverwriting(src, value, d, failing) ==
  CASE src.kind = "mem" ->
         IF src.str # <<>> /\ value # src.str
         THEN [err |-> TRUE, src |-> src, dir |-> d]
         ELSE [err |-> FALSE, src |-> [src EXCEPT !.str = value], dir |-> d]
    [] src.kind = "file" ->
         [err |-> WriteFile(src.path, WithNewline(value), d, failing).err,
          src |-> src,
          dir |-> WriteFile(src.path, WithNewline(value), d, failing).dir]
    [] OTHER ->
         [err |-> FALSE, src |-> src, dir |-> d]

\* src.Set(value)
Set(src, value, d, failing) ==
  CASE src.kind = "mem" ->
         IF src.str # <<>> /\ value # src.str
         THEN [err |-> TRUE, src |-> src, dir |-> d]
         ELSE [err |-> FALSE, src |-> [src EXCEPT !.str = value], dir |-> d]
    [] src.kind = "file" ->
         IF d[src.path].exists /\ TrimSpace(value) # TrimSpace(d[src.path].data)
         THEN [err |-> TRUE, src |-> src, dir |-> d]
         ELSE [err |-> WriteFile(src.path, WithNewline(value), d, failing).err,
               src |-> src,
               dir |-> WriteFile(src.path, WithNewline(value), d, failing).dir]
    [] OTHER ->
         [err |-> FALSE, src |-> src, dir |-> d]

\* the second loop of syncrhonizeConfig from source i on
RECURSIVE SetAll(_, _, _, _, _)
SetAll(sources, i, value, d, failing) ==
  IF i > Len(sources) THEN [err |-> FALSE, sources |-> sources, dir |-> d]
  ELSE IF Set(sources[i], value, d, failing).err
       THEN [err |-> TRUE, sources |-> sources, dir |-> Set(sources[i], value, d, failing).dir]
       ELSE SetAll([sources EXCEPT ![i] = Set(sources[i], value, d, failing).src],
                   i + 1, value, Set(sources[i], value, d, failing).dir, failing)

\* syncrhonizeConfig(sources...): its result, and the sources, the directory
\* and the generator after it
syncrhonizeConfig(sources, d, g, failing) ==
  IF FirstValue(sources, 1, d, g).value = <<>>
  THEN [value |-> <<>>, err |-> TRUE, sources |-> sources, dir |-> d,
        gen |-> FirstValue(sources, 1, d, g).gen]
  ELSE LET value == FirstValue(sources, 1, d, g).value
           set == SetAll(sources, 1, value, d, failing)
       IN  [value |-> IF set.err THEN <<>> ELSE value, err |-> set.err,
            sources |-> set.sources, dir |-> set.dir,
            gen |-> FirstValue(sources, 1, d, g).gen]

(***************************************************************************)
(* newSecretManager(options, dir).                                          *)
(***************************************************************************)
\* PKIOptions: Name, and ID.String() (empty for the zero UUID)
Options(name, id) == [name |-> name, id |-> id]

\* the sources of the name and of the ID
NameSources(options) == <<MemSource(options.name), FileSource("name")>>
IDSources(options) == <<MemSource(options.id), FileSource("uuid"), GenSource>>

\* uuid.Parse(idStr)
ParseID(idStr) ==
  IF Len(idStr) = 1 THEN ParseUUID(idStr[1]) ELSE [ok |-> FALSE, id |-> ""]

\* a syncrhonizeConfig call that was not made
NotRun(sources, d, g) ==
  [value |-> <<>>, err |-> TRUE, sources |-> sources, dir |-> d, gen |-> g]

\* the result of newSecretManager: the manager's name and ID or the stage
\* that failed, the two syncrhonizeConfig calls, and the directory and the
\* generator after it
newSecretManager(options, d, g, failing) ==
  LET n == syncrhonizeConfig(NameSources(options), d, g, failing)
      u == IF n.err THEN NotRun(IDSources(options), n.dir, n.gen)
           ELSE syncrhonizeConfig(IDSources(options), n.dir, n.gen, failing)
      done == ~n.err /\ ~u.err /\ ParseID(u.value).ok
  IN  [ok |-> done,
       stage |-> IF n.err THEN "name" ELSE IF u.err THEN "uuid"
                 ELSE IF ~ParseID(u.value).ok THEN "parse" ELSE "done",
       name |-> IF done THEN n.value ELSE <<>>,
       pkiID |-> IF done THEN ParseID(u.value).id ELSE "",
       nameSync |-> n, idSync |-> u,
       dir |-> u.dir, gen |-> u.gen]

\* the options of the model's startups: no name, a name, the name with
\* blanks around it, another name; no ID, the server's ID, another ID
NameOptions == { <<>>, <<"capsule">>, <<" ", "capsule", " ">>, <<"other">> }
IDOptions ==
  { <<>>, <<"aa625eb2-d75d-4a64-8f5c-22cd4a06db22">>,
    <<"0b1f4c9e-3c1d-4e0a-9b57-6d2f8a4e7c11">> }
StartupOptions == { Options(name, id) : name \in NameOptions, id \in IDOptions }

\* the file whose write fails in a startup, if any
Failing == {"none", "name", "uuid"}

\* what is kept of a startup: its options, the directory and the generator
\* count it found, and the result of newSecretManager
StartupRecord(options, d, g, failing) ==
  [options |-> options, before |-> d, genBefore |-> g, failing |-> failing,
   result |-> newSecretManager(options, d, g, failing)]

\* a process starts on the secrets directory
Startup(options, failing) ==
  /\ calls < MaxCalls
  /\ calls' = calls + 1
  /\ failing # "none" => faults < MaxFaults
  /\ faults' = IF failing = "none" THEN faults ELSE faults + 1
  /\ sm' = StartupRecord(options, dir, gen, failing)
  /\ dir' = sm'.result.dir
  /\ gen' = sm'.result.gen
  /\ UNCHANGED <<files, privileged, keygen, writers, writersMu, chans, proc, released, outputs,
                 clockVars>>

\* an empty secrets directory, and no startup yet
FreshDir == [path \in ConfigPaths |-> NoFile]
NoStartup ==
  [options |-> Options(<<>>, <<>>), before |-> FreshDir, genBefore |-> 0, failing |-> "none",
   result |-> [ok |-> FALSE, stage |-> "none", name |-> <<>>, pkiID |-> "",
               nameSync |-> NotRun(<<>>, FreshDir, 0), idSync |-> NotRun(<<>>, FreshDir, 0),
               dir |-> FreshDir, gen |-> 0]]

\* the options of the server of Spec and SpecStore
ServerOptions == Options(<<"capsule">>, <<"aa625eb2-d75d-4a64-8f5c-22cd4a06db22">>)

\* the configuration once newSecretManager(ServerOptions) has succeeded on
\* an empty directory
ConfigStarted ==
  /\ sm = StartupRecord(ServerOptions, FreshDir, 0, "none")
  /\ dir = sm.result.dir
  /\ gen = sm.result.gen

(***************************************************************************)
(* The secrets directory at start-up: each interval's file is missing, or   *)
(* holds the secret an earlier run wrote, or is the empty file an earlier   *)
(* run left when it stopped between creating the file and writing it.       *)
(***************************************************************************)
InitialEntries == {Absent, FileOf(BytesOf(OldBlob)), FileOf(NoBytes)}

\* the secret manager and the procs at start-up
StoreStart ==
  /\ writers = [path \in Paths |-> 0]
  /\ writersMu = "free"
  /\ chans = <<>>
  /\ proc = [p \in Procs |-> Idle]
  /\ calls = 0
  /\ faults = 0
  /\ released = [u \in Instants |-> {}]
  /\ outputs = [u \in Instants |-> {}]

\* the clock at start-up: newPoller has made a session with the first
\* responding server and stored its first reading, and PollLoop has started
\* its first sleep
StartTime == 3 * secretInterval

ClockStart(lags) ==
  /\ trueTime = StartTime
  /\ mono = 0
  /\ ticks = 0
  /\ \E lag \in lags : cell = [nts |-> StartTime - lag, system |-> 0]
  /\ cellMu = "free"
  /\ puts = {cell}
  /\ resps = {cell.nts}
  /\ attempt = NoAttempt
  /\ steady = Addresses
  /\ \E up \in UpSets \ {{}} :
       poller = [pc |-> "sleep", failures |-> 0, session |-> createSession(addrs, up),
                 made |-> 1, deadline |-> pollPeriod, resp |-> -1]

\* the server started on a fresh secrets directory
Init ==
  /\ files = [path \in Paths |-> Absent]
  /\ privileged = FALSE
  /\ ConfigStarted
  /\ StoreStart
  /\ keygen = NoKeygen
  /\ ClockStart(NTSLags)

\* the store on any directory an earlier run can have left
StoreInit ==
  /\ privileged \in BOOLEAN
  /\ ConfigStarted
  /\ files \in [Paths -> InitialEntries]
  /\ StoreStart
  /\ keygen = NoKeygen
  /\ ClockStart({0})
  /\ poller.session = addrs[1]

StoreNext ==
  \/ \E p \in Workers, t \in TimeValues : Call(p, t)
  \/ \E p \in Workers : TryRead(p)
  \/ \E p \in Workers : Lock(p)
  \/ \E p \in Workers : RecvPrev(p)
  \/ \E p \in Workers : RecvDone(p)
  \/ \E p \in Workers : ReRead(p)
  \/ \E p \in Workers : Return(p)
  \/ \E c \in 1..Len(chans) : InternalRand(c)
  \/ \E c \in 1..Len(chans) : InternalSendEntropy(c)
  \/ \E c \in 1..Len(chans) : InternalOpen(c)
  \/ \E c \in 1..Len(chans) : InternalWrite(c)
  \/ \E c \in 1..Len(chans) : InternalSendWrite(c)
  \/ \E c \in 1..Len(chans) : InternalSendNil(c)

SpecStore == StoreInit /\ [][StoreNext]_vars

\* the store with the Go scheduler's fairness: a goroutine that can take a
\* step is not left out forever
FairSpecStore == SpecStore /\ WF_vars(StoreNext)

\* startups, one after the other, on a directory that was empty at first
ConfigInit ==
  /\ files = [path \in Paths |-> Absent]
  /\ privileged \in BOOLEAN
  /\ dir = FreshDir
  /\ sm = NoStartup
  /\ gen = 0
  /\ StoreStart
  /\ keygen = NoKeygen
  /\ ClockStart({0})
  /\ poller.session = addrs[1]

ConfigNext ==
  \E options \in StartupOptions, failing \in Failing : Startup(options, failing)

SpecConfig == ConfigInit /\ [][ConfigNext]_vars

\* the server with two requests in service at once (net/http serves each
\* connection on a goroutine of its own), on a fresh directory and with the
\* clock standing at its first reading
ServeInit ==
  /\ files = [path \in Paths |-> Absent]
  /\ privileged = FALSE
  /\ ConfigStarted
  /\ StoreStart
  /\ keygen = NoKeygen
  /\ ClockStart({0})
  /\ poller.session = addrs[1]

ServeNext ==
  \/ \E p \in Workers, e \in {"getPublicKey", "getPrivateKey"}, q \in Queries :
       Request(p, e, q)
  \/ \E p \in Workers : NowGet(p)
  \/ \E p \in Workers : NowSince(p)
  \/ \E p \in Workers : TryRead(p)
  \/ \E p \in Workers : Lock(p)
  \/ \E p \in Workers : RecvPrev(p)
  \/ \E p \in Workers : RecvDone(p)
  \/ \E p \in Workers : ReRead(p)
  \/ \E p \in Workers : Return(p)
  \/ \E c \in 1..Len(chans) : InternalRand(c)
  \/ \E c \in 1..Len(chans) : InternalSendEntropy(c)
  \/ \E c \in 1..Len(chans) : InternalOpen(c)
  \/ \E c \in 1..Len(chans) : InternalWrite(c)
  \/ \E c \in 1..Len(chans) : InternalSendWrite(c)
  \/ \E c \in 1..Len(chans) : InternalSendNil(c)

SpecServe == ServeInit /\ [][ServeNext]_vars

\* the poller alone: PollLoop sleeping and polling, with the servers
\* responding or not at each attempt
PollerInit ==
  /\ files = [path \in Paths |-> Absent]
  /\ privileged = FALSE
  /\ ConfigStarted
  /\ StoreStart
  /\ keygen = NoKeygen
  /\ ClockStart({0})

PollerNext ==
  \/ Sleep
  \/ \E up \in UpSets : PollWake(up)
  \/ \E up \in UpSets, lag \in NTSLags : PollQuery(up, lag)
  \/ PollPut

SpecPoller == PollerInit /\ [][PollerNext]_vars

\* requests with every pki_id combined with every time string and with no
\* time parameter
PKIQueries ==
  { Query(TRUE, id, TRUE, s) : id \in UUIDStrings, s \in TimeStrings }
  \cup { Query(TRUE, id, FALSE, BadTimeString) : id \in UUIDStrings }

\* requests whose time is an in-range number followed by other characters
OtherTimeQueries == { Query(FALSE, "", TRUE, DigitsThenOther(MinTime.unix)) }

\* one handler serving requests of every kind, the clock standing at its
\* first reading
FilterNext ==
  \/ \E p \in Handlers, e \in {"getPublicKey", "getPrivateKey"}, q \in Queries \cup PKIQueries \cup OtherTimeQueries :
       Request(p, e, q)
  \/ \E p \in Handlers : NowGet(p)
  \/ \E p \in Handlers : NowSince(p)
  \/ \E p \in Handlers : TryRead(p)
  \/ \E p \in Handlers : Lock(p)
  \/ \E p \in Handlers : RecvPrev(p)
  \/ \E p \in Handlers : RecvDone(p)
  \/ \E p \in Handlers : ReRead(p)
  \/ \E p \in Handlers : Return(p)
  \/ \E c \in 1..Len(chans) : InternalRand(c)
  \/ \E c \in 1..Len(chans) : InternalSendEntropy(c)
  \/ \E c \in 1..Len(chans) : InternalOpen(c)
  \/ \E c \in 1..Len(chans) : InternalWrite(c)
  \/ \E c \in 1..Len(chans) : InternalSendWrite(c)
  \/ \E c \in 1..Len(chans) : InternalSendNil(c)

SpecFilter == Init /\ [][FilterNext]_vars

\* generateKeyStable is called with the stream at hand
Generate ==
  /\ ~keygen.done
  /\ keygen' = [keygen EXCEPT !.done = TRUE, !.result = generateKeyStable(keygen.stream)]
  /\ UNCHANGED <<files, privileged, configVars, writers, writersMu, chans, proc, calls, faults,
                 released, outputs, clockVars>>

\* key generation alone, on every stream of the model
KeygenInit ==
  /\ files = [path \in Paths |-> Absent]
  /\ privileged = FALSE
  /\ dir = FreshDir
  /\ sm = NoStartup
  /\ gen = 0
  /\ StoreStart
  /\ ClockStart({0})
  /\ poller.session = addrs[1]
  /\ keygen \in [stream : Streams, done : {FALSE}, result : {NoResult}]

KeygenNext == Generate

SpecKeygen == KeygenInit /\ [][KeygenNext]_vars

\* the polls of the cell specification
MaxCellPolls == 2

\* a request that gets as far as Now()
CellQueries == { Query(FALSE, "", TRUE, IntString(MinTime.unix)) }

\* <-time.After(d) of the first MaxCellPolls iterations of PollLoop
CellSleep == ticks < MaxCellPolls /\ Sleep

\* two requests for a private key reading the cell while the poller writes
\* it, Get and Put taken step by step
CellNext ==
  \/ \E p \in Workers, q \in CellQueries : Request(p, "getPrivateKey", q)
  \/ \E p \in Workers : GetLock(p)
  \/ \E p \in Workers : GetNts(p)
  \/ \E p \in Workers : GetSystem(p)
  \/ \E p \in Workers : GetUnlock(p)
  \/ \E p \in Workers : NowSince(p)
  \/ CellSleep
  \/ \E up \in UpSets : PollWake(up)
  \/ \E up \in UpSets, lag \in NTSLags : PollQuery(up, lag)
  \/ PutLock
  \/ PutNts
  \/ PutSystem
  \/ PutUnlock

SpecCell == PollerInit /\ [][CellNext]_vars

\* the clock from before its construction on
ClockNewInit ==
  /\ files = [path \in Paths |-> Absent]
  /\ privileged = FALSE
  /\ ConfigStarted
  /\ StoreStart
  /\ keygen = NoKeygen
  /\ trueTime = StartTime
  /\ mono = 0
  /\ ticks = 0
  /\ cell = NoReading
  /\ cellMu = "free"
  /\ puts = {}
  /\ resps = {}
  /\ attempt = NoAttempt
  /\ steady = Addresses
  /\ poller = NoPoller

ClockNewNext ==
  \/ \E up \in UpSets, up2 \in UpSets, lag \in NTSLags : NewSecureClock(up, up2, lag)
  \/ Sleep
  \/ \E up \in UpSets : PollWake(up)
  \/ \E up \in UpSets, lag \in NTSLags : PollQuery(up, lag)
  \/ PollPut

SpecClockNew == ClockNewInit /\ [][ClockNewNext]_vars

Next ==
  \/ \E p \in Handlers, e \in {"getPublicKey", "getPrivateKey"}, q \in Queries :
       Request(p, e, q)
  \/ \E p \in Handlers, t \in TimeValues : Call(p, t)
  \/ \E p \in Handlers : NowGet(p)
  \/ \E p \in Handlers : NowSince(p)
  \/ \E p \in Handlers : TryRead(p)
  \/ \E p \in Handlers : Lock(p)
  \/ \E p \in Handlers : RecvPrev(p)
  \/ \E p \in Handlers : RecvDone(p)
  \/ \E p \in Handlers : ReRead(p)
  \/ \E p \in Handlers : Return(p)
  \/ \E c \in 1..Len(chans) : InternalRand(c)
  \/ \E c \in 1..Len(chans) : InternalSendEntropy(c)
  \/ \E c \in 1..Len(chans) : InternalOpen(c)
  \/ \E c \in 1..Len(chans) : InternalWrite(c)
  \/ \E c \in 1..Len(chans) : InternalSendWrite(c)
  \/ \E c \in 1..Len(chans) : InternalSendNil(c)
  \/ \E d \in TickSteps, runs \in BOOLEAN : Tick(d, runs)
  \/ \E up \in UpSets : PollWake(up)
  \/ \E up \in UpSets, lag \in NTSLags : PollQuery(up, lag)
  \/ PollPut

Spec == Init /\ [][Next]_vars

(***************************************************************************)
(* Properties of the release gate (Spec).                                   *)
(***************************************************************************)
\* C1: getPrivateKey answers 200 with a private key for t only if the value
\* of Now() it read in that request is at or after t; a request whose t is
\* after that value never gets a key, whatever the poller stores meanwhile.
C1_KeyOnlyIfNowReached ==
  \A p \in Handlers :
    (proc[p].entry = "getPrivateKey"
       /\ (proc[p].code = 200 \/ proc[p].body # NoOutput \/ proc[p].key # NoKey))
      => (proc[p].now # -1 /\ proc[p].now >= proc[p].t.unix)

\* a private key was released although the poller replaced the reading the
\* request had taken from the cell
C1_Witness ==
  \E p \in Handlers :
    /\ proc[p].entry = "getPrivateKey"
    /\ proc[p].pc = "ret"
    /\ proc[p].code = 200
    /\ proc[p].body.kind = "pkcs8"
    /\ proc[p].last # cell

\* C2: with NTS response times not after the true time of their arrival and
\* a monotonic clock no faster than true time, every value Now() can return
\* or has returned is at most the true time, and so a private key for t is
\* released only when the true time has reached t.
C2_NowIsLowerBound ==
  /\ NowOf(cell) <= trueTime
  /\ \A p \in Handlers :
       /\ proc[p].pc = "nowSince" => NowOf(proc[p].last) <= trueTime
       /\ proc[p].now # -1 => proc[p].now <= trueTime
       /\ (proc[p].entry = "getPrivateKey" /\ proc[p].code = 200)
            => proc[p].t.unix <= trueTime

\* a private key was released on a reading the poller took from a lagging
\* NTS response, with Now() strictly below the true time
C2_Witness ==
  \E p \in Handlers :
    /\ proc[p].entry = "getPrivateKey"
    /\ proc[p].pc = "ret"
    /\ proc[p].code = 200
    /\ proc[p].last.system > 0
    /\ proc[p].now < trueTime

\* C3 as stated: a well-formed private-key request with t in range and a
\* clock that is not stale is answered 403 when t > Now() and with the
\* private key for t when t <= Now().
C3_KeyWheneverDue ==
  \A p \in Handlers :
    (proc[p].entry = "getPrivateKey" /\ proc[p].pc = "ret" /\ proc[p].now # -1)
      => IF proc[p].t.unix > proc[p].now
         THEN proc[p].code = 403
         ELSE proc[p].code = 200 /\ proc[p].body.kind = "pkcs8"

\* C3, amended: such a request is answered 403 when t > Now(); when
\* t <= Now() it is never answered 403: it goes on to GetKeyForTime(t) and is
\* answered 200 with the PKCS8 encoding of the key GetKeyForTime returned, or
\* 500 with the generic message and no key when GetKeyForTime failed.
C3_GateDecides ==
  \A p \in Handlers :
    (proc[p].entry = "getPrivateKey" /\ proc[p].pc = "ret" /\ proc[p].now # -1)
      => IF proc[p].t.unix > proc[p].now
         THEN proc[p].code = 403 /\ proc[p].body = NoOutput
         ELSE \/ /\ proc[p].code = 200
                 /\ proc[p].err = "none"
                 /\ proc[p].key = deriveKeyForTime(proc[p].secret, proc[p].t)
                 /\ proc[p].body = PKCS8(proc[p].key)
              \/ /\ proc[p].code = 500
                 /\ proc[p].err # "none"
                 /\ proc[p].msg = "Server failed to retrieve private key"
                 /\ proc[p].body = NoOutput

\* a private key was released for a time equal to the value of Now()
C3_Witness ==
  \E p \in Handlers :
    /\ proc[p].entry = "getPrivateKey"
    /\ proc[p].pc = "ret"
    /\ proc[p].code = 200
    /\ proc[p].t.unix = proc[p].now

\* C9: a time before MinTime or after MaxTime makes GetKeyForTime return
\* the out-of-range error and both handlers answer 400, with no reading
\* taken from the clock and no step towards a secret file; MinTime and
\* MaxTime themselves are accepted.
C9_OutOfRangeRejected ==
  \A p \in Handlers :
    LET rec == proc[p]
        direct == rec.entry = "GetKeyForTime"
        t == IF direct THEN rec.t ELSE parseTime(rec.query.time).t
        wellFormed ==
          \/ direct
          \/ /\ rec.entry \in {"getPublicKey", "getPrivateKey"}
             /\ (~rec.query.hasID
                   \/ rec.query.id \in {"aa625eb2-d75d-4a64-8f5c-22cd4a06db22",
                                        "urn:uuid:AA625EB2-D75D-4A64-8F5C-22CD4A06DB22"})
             /\ rec.query.hasTime
             /\ rec.query.time.fmt # "other"
        outside == t.unix < MinTime.unix \/ t.unix > MaxTime.unix
    IN  /\ (rec.pc = "ret" /\ wellFormed /\ outside)
             => /\ IF direct THEN rec.err = "OutOfRange"
                   ELSE rec.code = 400 /\ rec.msg = "Time out of range"
                /\ rec.last = NoReading /\ rec.now = -1
                /\ rec.secret = NoBytes /\ rec.key = NoKey /\ rec.body = NoOutput
        /\ (rec.pc = "ret" /\ wellFormed /\ ~outside)
             => rec.err # "OutOfRange" /\ rec.code # 400
        /\ rec.pc \in {"nowGet", "nowSince", "tryRead", "lock", "recvPrev", "recvDone", "reRead"}
             => rec.t.unix >= MinTime.unix /\ rec.t.unix <= MaxTime.unix

\* a private-key request for the second after MaxTime was answered 400
C9_Witness ==
  \E p \in Handlers :
    /\ proc[p].pc = "ret"
    /\ proc[p].entry = "getPrivateKey"
    /\ proc[p].query.time = IntString(MaxTime.unix + 1)
    /\ proc[p].code = 400

\* C10: in both handlers a pki_id that is no UUID is answered 400; one that
\* is a UUID other than the server's is answered 404, with no key; with no
\* pki_id, or the server's in any spelling, the request passes the filter
\* and is decided by its time.
C10_PKIFilter ==
  \A p \in Handlers :
    (proc[p].pc = "ret" /\ proc[p].entry \in {"getPublicKey", "getPrivateKey"})
      => LET q == proc[p].query
             rec == proc[p]
         IN  /\ (q.hasID /\ q.id \in {"not-a-uuid", ""})
                  => rec.code = 400 /\ rec.msg = "Invalid UUID" /\ rec.body = NoOutput
             /\ (q.hasID /\ q.id = "0b1f4c9e-3c1d-4e0a-9b57-6d2f8a4e7c11")
                  => rec.code = 404 /\ rec.body = NoOutput /\ rec.key = NoKey
             /\ (~q.hasID \/ q.id \in {"aa625eb2-d75d-4a64-8f5c-22cd4a06db22",
                                       "urn:uuid:AA625EB2-D75D-4A64-8F5C-22CD4A06DB22"})
                  => /\ rec.code # 404
                     /\ rec.msg \notin {"Invalid UUID", "Server does not have PKI"}
                     /\ q.time = IntString(MinTime.unix)
                          => rec.code \in {200, 403, 500} /\ rec.t = MinTime

\* a request naming the server's PKI ID in the urn:uuid: spelling got a key
C10_Witness ==
  \E p \in Handlers :
    /\ proc[p].pc = "ret"
    /\ proc[p].query.hasID
    /\ proc[p].query.id = "urn:uuid:AA625EB2-D75D-4A64-8F5C-22CD4A06DB22"
    /\ proc[p].code = 200

(***************************************************************************)
(* Properties of the secret store (SpecStore).                              *)
(***************************************************************************)
\* C4: workers that call for the same interval for the first time, all
\* having found the file absent, all return: none of them is left waiting
\* for a message on the channel of an earlier writer that has sent all it
\* will ever send.
C4_AllWorkersReturn ==
  \A p \in Workers :
    proc[p].pc = "recvPrev"
      => ~(chans[proc[p].ch].pc = "exit" /\ chans[proc[p].ch].buf = <<>>)

\* C5: any two successful GetKeyForTime calls for the same t return the same
\* key, however they interleave with each other and with a creation of the
\* interval's secret file.
C5_SameKeyForSameTime ==
  \A u \in Instants : Cardinality(released[u]) <= 1

\* C6: a successful call for an interval whose file was created during the
\* run, even one whose read fell between the creation of the file and the
\* write of its contents, returns the full 32-byte secret.
C6_NoShortSecret ==
  \A p \in Workers :
    (proc[p].pc = "ret" /\ proc[p].err = "none"
       /\ writers[SecretFile(proc[p].t)] # 0)
      => proc[p].secret.len = secretSize

\* C7: once the secret file of an interval holds 32 bytes, no step changes
\* its contents or removes it.
C7_SecretNeverChanges ==
  [][\A path \in Paths :
       (files[path].exists /\ files[path].data.len = secretSize)
         => files'[path] = files[path]]_vars

\* C8: a call for an interval whose file exists untouched by any writer with
\* a length other than 32 bytes returns an error, and nothing is written.
C8_CorruptionIsAnError ==
  \A p \in Workers :
    (proc[p].pc = "ret" /\ proc[p].t.unix >= MinTime.unix /\ proc[p].t.unix <= MaxTime.unix
       /\ writers[SecretFile(proc[p].t)] = 0
       /\ files[SecretFile(proc[p].t)].exists
       /\ files[SecretFile(proc[p].t)].data.len # secretSize)
      => proc[p].err # "none"

(***************************************************************************)
(* Properties of the configuration (SpecConfig).                            *)
(***************************************************************************)
\* C11: a startup whose name or ID option differs, surrounding whitespace
\* aside, from the text of the name or uuid file it finds fails, and leaves
\* that file as it found it.
C11_ConflictFails ==
  \A path \in ConfigPaths :
    LET option == IF path = "name" THEN sm.options.name ELSE sm.options.id
        found == sm.before[path]
    IN  (sm.result.stage # "none" /\ option # <<>> /\ found.exists
           /\ TrimSpace(option) # TrimSpace(found.data))
          => (~sm.result.ok /\ dir[path] = found)

\* a privileged process started with another name than the persisted one,
\* failed, and the name file is as it was
C11_Witness ==
  /\ privileged
  /\ sm.options.name = <<"other">>
  /\ sm.before["name"] = TextFile(<<"capsule", "\n">>)
  /\ sm.result.stage = "name"
  /\ dir["name"] = TextFile(<<"capsule", "\n">>)

\* the syncrhonizeConfig calls of the latest startup: the sources, the
\* directory and the generator count each was given, the file whose write
\* fails, and its result
SyncCalls ==
  IF sm.result.stage = "none" THEN {}
  ELSE { [sources |-> NameSources(sm.options), dir |-> sm.before, gen |-> sm.genBefore,
          failing |-> sm.failing, result |-> sm.result.nameSync] }
       \cup IF sm.result.stage = "name" THEN {}
            ELSE { [sources |-> IDSources(sm.options), dir |-> sm.result.nameSync.dir,
                    gen |-> sm.result.nameSync.gen, failing |-> sm.failing,
                    result |-> sm.result.idSync] }

\* the sources of call c that report a value, and the first of them
PresentIn(c) == { i \in 1..Len(c.sources) : Get(c.sources[i], c.dir, c.gen).ok }
FirstIn(c) == CHOOSE i \in PresentIn(c) : \A j \in PresentIn(c) : i <= j

\* C12 as stated: syncrhonizeConfig returns the value of the first source
\* that reports one, fails when none does, and after a success every source
\* yields the returned value.
C12_AllSourcesYieldValue ==
  \A c \in SyncCalls :
    /\ PresentIn(c) = {} => c.result.err
    /\ ~c.result.err
         => /\ PresentIn(c) # {}
            /\ c.result.value = Get(c.sources[FirstIn(c)], c.dir, c.gen).value
            /\ \A i \in 1..Len(c.sources) :
                 Get(c.result.sources[i], c.result.dir, c.result.gen).value = c.result.value

\* C12, amended: syncrhonizeConfig returns the value of the first source that
\* reports one when that value is not empty; it fails when no source reports
\* a value and when the first reported value is empty; after a success every
\* memory source holds the returned value and every file source holds it,
\* surrounding whitespace aside, with a newline at its end; and the call
\* succeeds when the first reported value is not empty, no memory source
\* holds another value and every file source has yet to be written and is
\* written without error.
C12_FirstValueToMemAndFile ==
  \A c \in SyncCalls :
    /\ PresentIn(c) = {} => c.result.err
    /\ ( /\ PresentIn(c) # {}
         /\ Get(c.sources[FirstIn(c)], c.dir, c.gen).value # <<>>
         /\ \A i \in 1..Len(c.sources) :
              /\ c.sources[i].kind = "mem"
                   => c.sources[i].str \in {<<>>, Get(c.sources[FirstIn(c)], c.dir, c.gen).value}
              /\ c.sources[i].kind = "file"
                   => ~c.dir[c.sources[i].path].exists /\ c.failing # c.sources[i].path )
         => ~c.result.err
    /\ (PresentIn(c) # {} /\ Get(c.sources[FirstIn(c)], c.dir, c.gen).value = <<>>)
         => c.result.err
    /\ ~c.result.err
         => /\ PresentIn(c) # {}
            /\ c.result.value # <<>>
            /\ c.result.value = Get(c.sources[FirstIn(c)], c.dir, c.gen).value
            /\ \A i \in 1..Len(c.sources) :
                 LET src == c.result.sources[i]
                 IN  /\ src.kind = "mem" => src.str = c.result.value
                     /\ src.kind = "file"
                          => /\ c.result.dir[src.path].exists
                             /\ TrimSpace(c.result.dir[src.path].data) = TrimSpace(c.result.value)
                             /\ c.result.dir[src.path].data[Len(c.result.dir[src.path].data)] = "\n"

\* a startup without an ID option took the ID from the uuid file it found
C12_Witness ==
  /\ sm.result.stage = "done"
  /\ sm.options.id = <<>>
  /\ sm.before["uuid"].exists
  /\ sm.result.idSync.value = TrimSpace(sm.before["uuid"].data)
  /\ sm.result.gen = sm.genBefore

\* C13 as stated: a startup without an ID option whose name option does not
\* conflict with the name file, and that finds no uuid file, generates a UUID
\* and persists it; one that finds a persisted UUID adopts it as its PKI ID
\* without consulting the generator and leaves the file as it was.
C13_PersistedUUIDAdopted ==
  ( /\ sm.result.stage # "none"
    /\ sm.options.id = <<>>
    /\ sm.options.name # <<>>
    /\ sm.before["name"].exists
         => TrimSpace(sm.before["name"].data) = TrimSpace(sm.options.name) )
    => LET found == sm.before["uuid"]
       IN  /\ (found.exists /\ TrimSpace(found.data) # <<>>)
                => /\ sm.result.ok
                   /\ sm.result.pkiID = ParseID(TrimSpace(found.data)).id
                   /\ sm.result.gen = sm.genBefore
                   /\ dir["uuid"] = found
           /\ (~found.exists /\ sm.failing = "none")
                => /\ sm.result.ok
                   /\ sm.result.gen = sm.genBefore + 1
                   /\ dir["uuid"] = TextFile(WithNewline(sm.result.idSync.value))
                   /\ sm.result.pkiID = ParseID(sm.result.idSync.value).id

\* C14: Now() fails exactly when delta, the monotonic time since the reading
\* was taken, is at least ntsStaleThreshold (a delta equal to the threshold
\* fails), and the handler then answers 500; otherwise Now() is the
\* reading's NTS time plus delta.
C14_StaleAtThreshold ==
  [][\A p \in Handlers :
       (proc[p].pc = "nowSince" /\ proc'[p].pc # "nowSince")
         => LET delta == mono - proc[p].last.system
            IN  IF delta >= ntsStaleThreshold
                THEN proc'[p].pc = "ret" /\ proc'[p].code = 500 /\ proc'[p].now = -1
                ELSE proc'[p].now = proc[p].last.nts + delta]_vars

\* a request was answered 500 on a reading exactly ntsStaleThreshold old
C14_Witness ==
  \E p \in Handlers :
    /\ proc[p].pc = "ret"
    /\ proc[p].code = 500
    /\ proc[p].entry = "getPrivateKey"
    /\ proc[p].last.system >= 0
    /\ proc[p].now = -1
    /\ mono - proc[p].last.system = ntsStaleThreshold

\* C15 as stated: once a private-key request for t was answered with the
\* key, every later well-formed private-key request for the same t is
\* answered 200 too, whatever the poller wrote to the cell and however the
\* clocks moved in between.
C15_ReleasedStaysReleased ==
  \A p \in Handlers :
    ( /\ proc[p].pc = "ret"
      /\ proc[p].entry = "getPrivateKey"
      /\ proc[p].t.unix \in Instants
      /\ \E body \in outputs[proc[p].t.unix] : body.kind = "pkcs8" )
      => proc[p].code = 200

\* C16: a well-formed private-key request whose Now() finds the reading
\* stale is answered 500 with no key, and nothing is released or written
\* for it; a public-key request never reads the clock cell and never waits
\* for the clock, so its outcome is the same whatever the cell and the
\* poller hold.
C16_StaleClockOnlyStopsRelease ==
  [][\A p \in Handlers :
       /\ (proc[p].pc = "nowSince" /\ proc'[p].pc # "nowSince" /\ Stale(proc[p].last))
            => /\ proc'[p].pc = "ret"
               /\ proc'[p].code = 500
               /\ proc'[p].body = NoOutput
               /\ proc'[p].key = NoKey
               /\ UNCHANGED <<files, released, outputs>>
       /\ proc'[p].entry = "getPublicKey"
            => /\ proc'[p].last = NoReading
               /\ proc'[p].now = -1
               /\ proc'[p].pc \notin {"nowGet", "nowSince"}]_vars

\* a public-key request was answered with the key while the clock was stale
C16_Witness ==
  \E p \in Handlers :
    /\ proc[p].pc = "ret"
    /\ proc[p].entry = "getPublicKey"
    /\ proc[p].code = 200
    /\ proc[p].body.kind = "spki"
    /\ Stale(cell)

\* C17 as stated: for every t, the public key of every private key returned
\* for t by a private-key request equals every public key returned for t by
\* a public-key request.
C17_PublicHalfMatches ==
  \A u \in Instants :
    \A sk \in outputs[u], pk \in outputs[u] :
      (sk.kind = "pkcs8" /\ pk.kind = "spki") => sk.pub = pk.pub

\* the time.Time values of the model that denote the Unix second of t: the
\* values calls are made with and the values the time strings parse to
SameSecond(t) ==
  { u \in TimeValues \cup { parseTime(s).t : s \in TimeStrings } : u.unix = t.unix }

C19_FilesWellFormed ==
  /\ \A path \in Paths : files[path].exists => files[path].data.len = secretSize
  /\ \A path \in ConfigPaths :
       dir[path].exists
         => Len(dir[path].data) > 0 /\ dir[path].data[Len(dir[path].data)] = "\n"

\* C20 as stated: a poll attempt that starts after maxConsecutiveFailures
\* or more consecutive failed polls establishes a new session before it
\* queries.
C20_NewSessionAfterFiveFailures ==
  [][(poller.pc = "sleep" /\ poller.failures >= maxConsecutiveFailures
        /\ poller'.pc = "query")
       => poller'.made = poller.made + 1]_vars

\* C21: PollLoop polls only when its timer has fired; a poll that succeeds
\* stores the new reading in the cell, resets the count of consecutive
\* failures to 0 and is followed by a sleep of pollPeriod; a poll that fails
\* leaves the cell alone, adds 1 to the count and is followed by a sleep of
\* retryPeriod; the first sleep is pollPeriod.
C21_SleepByLastOutcome ==
  [][/\ (poller.pc = "sleep" /\ poller' # poller) => mono >= poller.deadline
     /\ (poller.pc = "response" /\ poller'.pc = "sleep")
          => /\ cell' = [nts |-> poller.resp, system |-> mono]
             /\ poller'.failures = 0
             /\ poller'.deadline = mono + pollPeriod
     /\ (poller.pc # "response" /\ poller'.pc = "sleep" /\ poller' # poller)
          => /\ cell' = cell
             /\ poller'.failures = poller.failures + 1
             /\ poller'.deadline = mono + retryPeriod
     /\ (poller'.pc = "sleep" /\ poller'.failures = 0)
          => poller'.deadline = cell'.system + pollPeriod]_vars

\* the first poll failed, the retry five minutes later succeeded, and the
\* loop sleeps pollPeriod again
C21_Witness ==
  /\ poller.pc = "sleep"
  /\ poller.failures = 0
  /\ mono = pollPeriod + retryPeriod
  /\ cell.system = mono
  /\ poller.deadline = mono + pollPeriod

\* the workers whose createSecretFile has started its goroutine and has not
\* yet returned: they are creating their path's file
Creating == { p \in Workers : proc[p].pc \in {"recvDone", "reRead"} }

\* C22 as stated: creators of distinct paths proceed in parallel, so a
\* worker that is creating the file of one interval does not keep a worker
\* that wants to create the file of another interval out of createSecretFile.
C22_DistinctPathsInParallel ==
  \A p \in Workers, q \in Creating :
    (proc[p].pc = "lock" /\ SecretFile(proc[p].t) # SecretFile(proc[q].t))
      => writersMu # q

\* what the code does instead: no two workers are ever creating files at
\* the same time, whether for one path or for two
CreatorsNeverOverlap == \A p \in Creating, q \in Creating : p = q

\* C23 as stated: a creation whose RNG read failed writes no secret file,
\* so every secret file of full length holds the bytes of an RNG read that
\* succeeded, and so does every full-length secret a call returns.
C23_NoFileWithoutEntropy ==
  /\ \A path \in Paths :
       (files[path].exists /\ files[path].data.len = secretSize)
         => files[path].data.blob.full
  /\ \A p \in Workers :
       (proc[p].pc = "ret" /\ proc[p].err = "none" /\ proc[p].secret.len = secretSize)
         => proc[p].secret.blob.full

\* C24 as stated: every call a worker has started returns in the end,
\* however the workers and the createSecretFileInternal goroutines interleave.
C24_EveryCallReturns ==
  \A p \in Workers : (proc[p].pc \notin {"idle", "ret"}) ~> (proc[p].pc = "ret")

\* C25 as stated: a createSecretFileInternal goroutine sends one value on
\* its channel and no more; once it has sent an error it is finished and
\* does not go on to send nil; and the one value is nil only when the RNG
\* read succeeded and the file holds the bytes read.
C25_ExactlyOneOutcome ==
  \A c \in 1..Len(chans) :
    /\ Len(chans[c].sent) <= 1
    /\ chans[c].sent # <<>> => chans[c].pc = "exit"
    /\ chans[c].sent = <<"nil">>
         => chans[c].secret.full /\ files[chans[c].path].exists

\* the Unix-epoch-aligned hour t falls in
AlignedHour(t) == t.unix \div secretInterval

\* C26: the file GetSecretForTime uses for the time of a call is the file
\* named after the start of the aligned UTC hour of that time; it is the
\* file of another time exactly when both fall in the same aligned hour; and
\* the directory has one file, hence at most one secret, per aligned hour.
C26_OneFilePerAlignedHour ==
  /\ \A p \in Workers :
       proc[p].t.unix \in Instants
         => /\ SecretFile(proc[p].t) = Format([unix |-> AlignedHour(proc[p].t) * secretInterval,
                                               loc |-> 0])
            /\ \A u \in TimeValues :
                 (SecretFile(u) = SecretFile(proc[p].t))
                   <=> (AlignedHour(u) = AlignedHour(proc[p].t))
  /\ Cardinality(DOMAIN files)
       = Cardinality({ AlignedHour(u) : u \in { v \in TimeValues : InRange(v) } })

\* two calls for different seconds of one hour returned the secret of that
\* hour's one file
C26_Witness ==
  \E p \in Workers, q \in Workers :
    /\ proc[p].pc = "ret" /\ proc[p].err = "none"
    /\ proc[q].pc = "ret" /\ proc[q].err = "none"
    /\ proc[p].t.unix = 3 * secretInterval
    /\ proc[q].t.unix = 4 * secretInterval - 1
    /\ proc[p].secret = proc[q].secret
    /\ proc[p].secret = files[SecretFile(proc[q].t)].data
    /\ proc[p].secret.len = secretSize

\* pki_id strings that are no UUID, and the UUID strings of a foreign PKI
MalformedIDs == {"not-a-uuid", ""}
ForeignIDs == {"0b1f4c9e-3c1d-4e0a-9b57-6d2f8a4e7c11"}

\* whether the time parameter of query q passes the handlers' checks: it is
\* there, in one of the two formats, and in [MinTime, MaxTime]
TimeAccepted(q) ==
  /\ q.hasTime
  /\ q.time.fmt \in {"int", "rfc3339"}
  /\ q.time.sec - q.time.off >= MinTime.unix
  /\ q.time.sec - q.time.off <= MaxTime.unix

\* C27: in both handlers a request with a malformed pki_id is answered 400
\* for the UUID and one with a foreign pki_id 404, whatever its time
\* parameter is; a request that passes the PKI filter with a time parameter
\* that is missing, malformed or out of range is answered 400; none of these
\* requests reads the clock or looks a key up.
C27_PKIFilterThenTime ==
  \A p \in Handlers :
    proc[p].entry \in {"getPublicKey", "getPrivateKey"}
      => LET q == proc[p].query
             ended == /\ proc[p].pc = "ret"
                      /\ proc[p].last = NoReading
                      /\ proc[p].t = NoTime
                      /\ proc[p].key = NoKey
                      /\ proc[p].body = NoOutput
         IN  /\ (q.hasID /\ q.id \in MalformedIDs)
                  => ended /\ proc[p].code = 400 /\ proc[p].msg = "Invalid UUID"
             /\ (q.hasID /\ q.id \in ForeignIDs)
                  => ended /\ proc[p].code = 404
             /\ ((~q.hasID \/ q.id \notin MalformedIDs \cup ForeignIDs) /\ ~TimeAccepted(q))
                  => ended /\ proc[p].code = 400 /\ proc[p].msg # "Invalid UUID"

\* a private-key request with a foreign pki_id and a time after Now() was
\* answered 404
C27_Witness ==
  \E p \in Handlers :
    /\ proc[p].pc = "ret"
    /\ proc[p].entry = "getPrivateKey"
    /\ proc[p].query.id \in ForeignIDs
    /\ proc[p].query.time = IntString(MaxTime.unix)
    /\ MaxTime.unix > cell.nts + (mono - cell.system)
    /\ proc[p].code = 404

\* a private-key request of handler p in record rec that the clock check
\* refuses: 403 for a time after Now(), 500 for a stale clock
Refused(rec) ==
  /\ rec.entry = "getPrivateKey"
  /\ \/ rec.code = 403
     \/ rec.code = 500 /\ rec.msg = "Server could securely determine the current time"

\* C28: a private-key request is refused by the clock check before any key
\* lookup: no step of the request up to and including the refusal changes
\* the secrets directory or the secret manager, and the refused request has
\* ended without a secret, a key or a writer channel.
C28_RefusalLeavesDirectory ==
  [][\A p \in Handlers :
       /\ (proc'[p] # proc[p] /\ proc'[p].entry = "getPrivateKey"
             /\ (proc'[p].pc \in {"nowGet", "nowSince"} \/ Refused(proc'[p])))
            => UNCHANGED <<files, writers, writersMu, chans>>
       /\ Refused(proc'[p])
            => /\ proc'[p].pc = "ret"
               /\ proc'[p].secret = NoBytes
               /\ proc'[p].key = NoKey
               /\ proc'[p].ch = 0]_vars

\* a request for a time after Now() was refused 403 and the file of its
\* interval does not exist
C28_Witness ==
  \E p \in Handlers :
    /\ proc[p].pc = "ret"
    /\ proc[p].code = 403
    /\ Refused(proc[p])
    /\ InRange(proc[p].t)
    /\ ~files[SecretFile(proc[p].t)].exists

\* C29: in both handlers, for a request that passes the PKI filter, a time
\* parameter that is an integer is taken as Unix seconds and one that is an
\* RFC 3339 string as the instant it denotes; a parameter in neither format,
\* digits followed by other characters included, and a missing parameter are
\* answered 400 with no key, before the clock is read or a key looked up.
C29_IntegerThenRFC3339 ==
  \A p \in Handlers :
    (proc[p].entry \in {"getPublicKey", "getPrivateKey"}
       /\ (~proc[p].query.hasID \/ proc[p].query.id \notin MalformedIDs \cup ForeignIDs))
      => LET q == proc[p].query
             rejected == /\ proc[p].pc = "ret"
                         /\ proc[p].code = 400
                         /\ proc[p].t = NoTime
                         /\ proc[p].last = NoReading
                         /\ proc[p].key = NoKey
                         /\ proc[p].body = NoOutput
         IN  /\ ~q.hasTime => rejected /\ proc[p].msg = "time parameter is required"
             /\ (q.hasTime /\ q.time.fmt = "other")
                  => rejected /\ proc[p].msg = "Invalid time parameter"
             /\ (q.hasTime /\ q.time.fmt = "int" /\ TimeAccepted(q))
                  => proc[p].t = [unix |-> q.time.sec, loc |-> 0]
             /\ (q.hasTime /\ q.time.fmt = "rfc3339" /\ TimeAccepted(q))
                  => proc[p].t = [unix |-> q.time.sec - q.time.off, loc |-> q.time.off]

\* a request whose time is a number followed by other characters was
\* answered 400
C29_Witness ==
  \E p \in Handlers :
    /\ proc[p].pc = "ret"
    /\ proc[p].query.time = DigitsThenOther(MinTime.unix)
    /\ proc[p].query.hasTime
    /\ proc[p].code = 400
    /\ proc[p].msg = "Invalid time parameter"

\* the blocks of stream s among its first maxKeyAttempts that are valid
\* scalars
ValidAmongFirst(s) ==
  { i \in 1..Len(s.blocks) : i <= maxKeyAttempts /\ s.blocks[i] = "valid" }

\* C30: generateKeyStable returns the key built from the first block among
\* the first maxKeyAttempts blocks of the stream that is a valid scalar,
\* having read the blocks up to that one; when none of them is valid it
\* returns an error, for want of entropy when the stream ends within them
\* and for too many attempts otherwise; it never reads more than
\* maxKeyAttempts blocks.
C30_FirstValidOfTen ==
  keygen.done
    => LET s == keygen.stream
           r == keygen.result
       IN  /\ r.reads <= maxKeyAttempts
           /\ ValidAmongFirst(s) # {}
                => /\ r.ok
                   /\ r.key \in ValidAmongFirst(s)
                   /\ \A i \in ValidAmongFirst(s) : r.key <= i
                   /\ r.reads = r.key
           /\ ValidAmongFirst(s) = {}
                => /\ ~r.ok
                   /\ r.key = 0
                   /\ Len(s.blocks) < maxKeyAttempts => r.err = "entropy"
                   /\ Len(s.blocks) >= maxKeyAttempts
                        => r.err = "attempts" /\ r.reads = maxKeyAttempts

\* the first ten blocks were no valid scalars and the eleventh was: the call
\* failed after ten reads
C30_Witness ==
  /\ keygen.done
  /\ Len(keygen.stream.blocks) = 11
  /\ keygen.stream.blocks[11] = "valid"
  /\ \A i \in 1..10 : keygen.stream.blocks[i] = "invalid"
  /\ ~keygen.result.ok
  /\ keygen.result.err = "attempts"
  /\ keygen.result.reads = 10

(***************************************************************************)
(* Properties of the clock cell and the poller.                             *)
(***************************************************************************)
\* the procs whose Get has returned its value
GetReturned == { p \in Procs : proc[p].pc = "nowSince" }

\* C31: with requests reading the cell while the poller writes it, every
\* Get returns a reading that one Put stored or that the cell was made
\* with: never the nts time of one reading with the system time of another.
C31_GetReturnsOneReading ==
  /\ \A p \in GetReturned : proc[p].last \in puts
  /\ cellMu = "free" => cell \in puts

\* one request has read a reading the poller had put, and another waits for
\* the mutex while the poller, holding it, has written half of the next
C31_Witness ==
  \E p \in GetReturned, q \in Workers :
    /\ proc[p].last \in puts
    /\ proc[p].last.system > 0
    /\ proc[q].pc = "nowGet"
    /\ cellMu = "poller"
    /\ poller.pc = "putSystem"
    /\ cell \notin puts

\* the place in addrs of the first address among up; 0 when there is none
FirstResponding(up) ==
  IF \E i \in 1..Len(addrs) : addrs[i] \in up
  THEN CHOOSE i \in 1..Len(addrs) : addrs[i] \in up /\ \A j \in 1..(i - 1) : addrs[j] \notin up
  ELSE 0

\* C32: a session is made with the first configured address, in list order,
\* that responds, the addresses before it having failed; making one fails
\* only when no configured address responds; and the poller goes on with
\* the session just made.
C32_FirstRespondingAddress ==
  attempt.called
    => /\ (attempt.session = "") <=> (FirstResponding(attempt.up) = 0)
       /\ attempt.session # "" => attempt.session = addrs[FirstResponding(attempt.up)]
       /\ (attempt.session # "" /\ poller.pc # "failed") => poller.session = attempt.session

\* during the loop a new session was made when the first address did not
\* respond and the second did
C32_Witness ==
  /\ attempt.called
  /\ attempt.up = {addrs[2]}
  /\ poller.made = 2
  /\ poller.session = addrs[2]

\* whether a SecureClock exists
ClockExists == poller.pc \notin {"new", "failed"}

\* C33: a SecureClock exists only if the first session was made and the
\* first query answered, and the cell of an existing clock always holds a
\* whole reading: the time of an NTS response with a system reading taken
\* with it, never the zero reading.
C33_CellHoldsQueriedReading ==
  /\ ClockExists
       => /\ poller.session \in Addresses
          /\ poller.made >= 1
          /\ resps # {}
          /\ cell \in puts
          /\ cell.nts \in resps
          /\ cell # NoReading
          /\ cell.system >= 0 /\ cell.system <= mono
  /\ poller.pc = "failed" => cell = NoReading /\ puts = {}

\* a poll has replaced the first reading and a later poll has failed
C33_Witness ==
  /\ ClockExists
  /\ cell.system > 0
  /\ poller.failures > 0
  /\ Cardinality(puts) >= 2

\* C34: a pollOnce that fails leaves the cell as it was, and one that fails
\* for want of a new session leaves the poller's session as it was too.
C34_FailedPollFrame ==
  [][ /\ poller'.failures > poller.failures
        => /\ cell' = cell
           /\ poller.pc = "sleep" => poller'.session = poller.session
      /\ (poller.pc = "sleep" /\ poller'.pc = "query") => cell' = cell ]_vars

\* a poll has failed because no new session could be made: the session is
\* the first one and the cell holds the first reading
C34_Witness ==
  /\ attempt.called
  /\ attempt.session = ""
  /\ poller.failures = maxConsecutiveFailures + 2
  /\ poller.made = 1
  /\ poller.session \in Addresses
  /\ cell.system = 0

\* C35 as stated, in its finite form: while some configured server has
\* responded at every attempt since the cell was last written, the polls
\* fail only until the poller makes a new session: no more than
\* maxConsecutiveFailures + 1 polls in a row fail before a fresh reading is
\* stored.
C35_FreshReadingWhileOneServerResponds ==
  steady # {} => poller.failures <= maxConsecutiveFailures + 1

(***************************************************************************)
(* Properties of restarts (SpecConfig).                                     *)
(***************************************************************************)
\* the latest startup found a name file and a uuid file with values in
\* them, its options name no other values, and no write of it was made to
\* fail
MatchingRestart ==
  /\ sm.result.stage # "none"
  /\ sm.failing = "none"
  /\ sm.before["name"].exists /\ TrimSpace(sm.before["name"].data) # <<>>
  /\ sm.before["uuid"].exists /\ ParseID(TrimSpace(sm.before["uuid"].data)).ok
  /\ sm.options.name # <<>>
       => TrimSpace(sm.options.name) = TrimSpace(sm.before["name"].data)
  /\ sm.options.id # <<>> => sm.options.id = TrimSpace(sm.before["uuid"].data)

\* C36 as stated: a startup on a directory that holds a name and a uuid
\* file, with options that match the persisted values or leave them out,
\* succeeds, reports the persisted name and ID, and leaves both files with
\* the values they had, whitespace aside.
C36_RestartIdempotent ==
  MatchingRestart
    => /\ sm.result.ok
       /\ TrimSpace(sm.result.name) = TrimSpace(sm.before["name"].data)
       /\ sm.result.pkiID = ParseID(TrimSpace(sm.before["uuid"].data)).id
       /\ sm.result.gen = sm.genBefore
       /\ \A path \in ConfigPaths :
            /\ dir[path].exists
            /\ TrimSpace(dir[path].data) = TrimSpace(sm.before[path].data)

\* C37 as stated: a startup that fails leaves the name and uuid files of
\* the directory as it found them: none created, none changed.
C37_FailedStartupLeavesFiles ==
  sm.result.stage \notin {"none", "done"} => dir = sm.before

(***************************************************************************)
(* Properties of the error answers.                                         *)
(***************************************************************************)
\* the requests answered 500 after GetKeyForTime failed
KeyErrors == { p \in Procs : proc[p].pc = "ret" /\ proc[p].code = 500 /\ proc[p].err # "none" }

\* C38: the message of a 500 answer is the handler's fixed text, whatever
\* the error inside: two requests of one handler whose key lookup failed
\* have the same message, also when the errors differ.
C38_GenericInternalError ==
  /\ \A p \in KeyErrors : proc[p].msg = internalError(proc[p].entry)
  /\ \A p \in KeyErrors, q \in KeyErrors :
       proc[p].entry = proc[q].entry => proc[p].msg = proc[q].msg

\* two requests of one handler have been answered 500 after different
\* errors
C38_Witness ==
  \E p \in KeyErrors, q \in KeyErrors :
    /\ proc[p].entry = proc[q].entry
    /\ proc[p].err # proc[q].err
    /\ proc[p].msg = proc[q].msg

\* the private-key requests that were answered with Now() before their time
FutureRefused ==
  { p \in Procs : /\ proc[p].entry = "getPrivateKey"
                  /\ proc[p].pc = "ret"
                  /\ proc[p].now # -1
                  /\ proc[p].t.unix > proc[p].now }

\* C39 as stated: a private-key request refused because t > now is answered
\* with status 403 and the message "private key not yet released".
C39_ForbiddenNotYetReleased ==
  \A p \in FutureRefused :
    /\ proc[p].code = 403
    /\ proc[p].msg = "private key not yet released"

\* C39 as the code has it: a private-key request for a time after Now() is
\* answered with status 403, no key, and the fixed message "Server does not
\* disclose private keys for future timestamps".
C39_ForbiddenFixedMessage ==
  \A p \in FutureRefused :
    /\ proc[p].code = 403
    /\ proc[p].msg = "Server does not disclose private keys for future timestamps"
    /\ proc[p].body = NoOutput

\* a request for the last instant of the range was refused while Now() was
\* before it
C39_Witness ==
  \E p \in FutureRefused :
    /\ proc[p].code = 403
    /\ proc[p].t.unix = MaxTime.unix
    /\ proc[p].now < MaxTime.unix
    /\ proc[p].now >= StartTime - retryPeriod

====
